---- MODULE Spec2Model ----
(***************************************************************************)
(* FitAi plan server (fit-server/src/main.py, with the agent variant       *)
(* mani.py): the capability invoker with its retry decorator, the JSON     *)
(* extraction cascade, the three-stage generate_plan pipeline, the         *)
(* correct_plan pipeline and the fitness_plans table they write.           *)
(*                                                                         *)
(* Text is modelled as a sequence of lexical chunks (a brace, a quote, a   *)
(* run of three backticks, the word json, one blank, one digit, a word).   *)
(* json.loads, json.dumps and the three regular expressions of             *)
(* extract_json_from_response are computed on these sequences.             *)
(***************************************************************************)
EXTENDS Integers, Sequences, FiniteSets, TLC

(* ------------------------------ bounds -------------------------------- *)

\* Number of parts an enumerated response text is concatenated from.
MaxParts == 3

\* Number of requests (generate_plan or correct_plan) started in a behaviour.
MaxRuns == 2

\* The most parts of a list-shaped message content.
MaxListParts == 3

(* ------------------------------- text --------------------------------- *)

\* The double-quote character.
QUOTE == "DQ"
\* A run of three backticks.
FENCE == "FENCE"
WS == " "
\* The newline the flattening of a part list puts between two parts.
NL == "NL"
Whitespace == {WS, NL}

\* The parts response texts are built from: every chunk of the alphabet, and
\* seven compounds (the opening of a json-tagged block, an untagged block
\* around a number, an empty object, the start of a summary member, a
\* json-tagged block around an empty object and one around a number, an
\* untagged block around prose).
Parts ==
    { <<"{">>, <<"}">>, <<"[">>, <<"]">>, <<",">>, <<QUOTE>>, <<FENCE>>,
      <<FENCE, "json">>, <<WS>>, <<"1">>, <<"null">>, <<"x">>,
      <<FENCE, "1", FENCE>>, <<"{", "}">>,
      <<QUOTE, "summary", QUOTE, ":">>,
      <<FENCE, "json", "{", "}", FENCE>>, <<FENCE, "json", "1", FENCE>>,
      <<FENCE, "x", FENCE>> }

RECURSIVE Concat(_)
Concat(ps) == IF ps = <<>> THEN <<>> ELSE Head(ps) \o Concat(Tail(ps))

Texts == { Concat(ps) : ps \in UNION { [1..n -> Parts] : n \in 0..MaxParts } }

Min(S) == CHOOSE m \in S : \A n \in S : m <= n
Max(S) == CHOOSE m \in S : \A n \in S : m >= n

(* ---------------------------- JSON values ----------------------------- *)

Null == [k |-> "null"]
Num(d) == [k |-> "num", d |-> d]
Str(c) == [k |-> "str", c |-> c]
List(items) == [k |-> "list", items |-> items]
\* A dict: a sequence of <<key, value>> with distinct keys, in insertion order.
Obj(pairs) == [k |-> "obj", pairs |-> pairs]

SUMMARY == <<"summary">>
RAW_RESPONSE == <<"raw_response">>
TASK_INSTRUCTIONS == <<"task_instructions">>

\* `key in d` for a dict d.
HasKey(d, key) == \E i \in 1..Len(d.pairs) : d.pairs[i][1] = key

\* d.get(key): the value, or None.
Get(d, key) ==
    IF HasKey(d, key)
    THEN d.pairs[CHOOSE i \in 1..Len(d.pairs) : d.pairs[i][1] = key][2]
    ELSE Null

\* d[key] = val on the pair list of a dict.
Put(pairs, key, val) ==
    IF \E i \in 1..Len(pairs) : pairs[i][1] = key
    THEN [i \in 1..Len(pairs) |->
            IF pairs[i][1] = key THEN <<key, val>> ELSE pairs[i]]
    ELSE Append(pairs, <<key, val>>)

\* dict(pairs): later duplicates overwrite earlier ones.
RECURSIVE DictOf(_, _)
DictOf(pairs, acc) ==
    IF pairs = <<>> THEN acc
    ELSE DictOf(Tail(pairs), Put(acc, Head(pairs)[1], Head(pairs)[2]))

\* bool(v) of a decoded value.
Truthy(v) ==
    CASE v.k = "null" -> FALSE
      [] v.k = "num" -> TRUE
      [] v.k = "str" -> v.c # <<>>
      [] v.k = "list" -> v.items # <<>>
      [] v.k = "obj" -> v.pairs # <<>>

(* ----------------------------- json.loads ----------------------------- *)

Fail == [ok |-> FALSE, val |-> Null, pos |-> 0]
Ok(v, p) == [ok |-> TRUE, val |-> v, pos |-> p]

\* The first index at or after i that is not whitespace (Len(t)+1 at the end).
SkipWs(t, i) ==
    CHOOSE j \in i..(Len(t) + 1) :
        /\ \A n \in i..(j - 1) : t[n] \in Whitespace
        /\ (j = Len(t) + 1 \/ t[j] \notin Whitespace)

\* A string whose opening quote is at i-1: up to the next quote; a newline
\* in it is an invalid control character.
py_scanstring(t, i) ==
    LET closing == { n \in i..Len(t) : t[n] = QUOTE } IN
    IF closing = {} THEN Fail
    ELSE IF \E n \in i..(Min(closing) - 1) : t[n] = NL THEN Fail
    ELSE Ok(Str(SubSeq(t, i, Min(closing) - 1)), Min(closing) + 1)

\* A number starting at i: the longest run of digits.
match_number(t, i) ==
    LET stop == Min({ n \in i..(Len(t) + 1) : n = Len(t) + 1 \/ t[n] # "1" })
    IN Ok(Num(SubSeq(t, i, stop - 1)), stop)

RECURSIVE scan_once(_, _)
RECURSIVE JSONObject(_, _, _)
RECURSIVE JSONArray(_, _, _)

\* i is where a property name must start.
JSONObject(t, i, pairs) ==
    IF i > Len(t) \/ t[i] # QUOTE THEN Fail
    ELSE LET key == py_scanstring(t, i + 1) IN
    IF ~key.ok THEN Fail
    ELSE LET colon == SkipWs(t, key.pos) IN
    IF colon > Len(t) \/ t[colon] # ":" THEN Fail
    ELSE LET v == scan_once(t, SkipWs(t, colon + 1)) IN
    IF ~v.ok THEN Fail
    ELSE LET e == SkipWs(t, v.pos)
             acc == Append(pairs, <<key.val.c, v.val>>) IN
    IF e > Len(t) THEN Fail
    ELSE IF t[e] = "}" THEN Ok(Obj(DictOf(acc, <<>>)), e + 1)
    ELSE IF t[e] = "," THEN JSONObject(t, SkipWs(t, e + 1), acc)
    ELSE Fail

\* i is where the next element must start.
JSONArray(t, i, items) ==
    LET v == scan_once(t, i) IN
    IF ~v.ok THEN Fail
    ELSE LET e == SkipWs(t, v.pos)
             acc == Append(items, v.val) IN
    IF e > Len(t) THEN Fail
    ELSE IF t[e] = "]" THEN Ok(List(acc), e + 1)
    ELSE IF t[e] = "," THEN JSONArray(t, SkipWs(t, e + 1), acc)
    ELSE Fail

scan_once(t, i) ==
    IF i > Len(t) THEN Fail
    ELSE CASE t[i] = QUOTE -> py_scanstring(t, i + 1)
           [] t[i] = "{" ->
                LET j == SkipWs(t, i + 1) IN
                IF j <= Len(t) /\ t[j] = "}" THEN Ok(Obj(<<>>), j + 1)
                ELSE JSONObject(t, j, <<>>)
           [] t[i] = "[" ->
                LET j == SkipWs(t, i + 1) IN
                IF j <= Len(t) /\ t[j] = "]" THEN Ok(List(<<>>), j + 1)
                ELSE JSONArray(t, j, <<>>)
           [] t[i] = "null" -> Ok(Null, i + 1)
           [] t[i] = "1" -> match_number(t, i)
           [] OTHER -> Fail

\* JSONDecoder.decode after raw_decode gave r: only whitespace may follow.
decode(t, r) ==
    IF r.ok /\ SkipWs(t, r.pos) = Len(t) + 1
    THEN [ok |-> TRUE, val |-> r.val]
    ELSE [ok |-> FALSE, val |-> Null]

\* json.loads(t): ok is FALSE where json.JSONDecodeError is raised.
json_loads(t) == decode(t, scan_once(t, SkipWs(t, 1)))

(* ----------------------------- json.dumps ----------------------------- *)

RECURSIVE json_dumps(_)
RECURSIVE DumpItems(_)
RECURSIVE DumpPairs(_)

DumpItems(items) ==
    IF items = <<>> THEN <<>>
    ELSE json_dumps(Head(items))
         \o (IF Len(items) > 1 THEN <<",", WS>> ELSE <<>>)
         \o DumpItems(Tail(items))

DumpPairs(pairs) ==
    IF pairs = <<>> THEN <<>>
    ELSE <<QUOTE>> \o Head(pairs)[1] \o <<QUOTE, ":", WS>>
         \o json_dumps(Head(pairs)[2])
         \o (IF Len(pairs) > 1 THEN <<",", WS>> ELSE <<>>)
         \o DumpPairs(Tail(pairs))

json_dumps(v) ==
    CASE v.k = "null" -> <<"null">>
      [] v.k = "num" -> v.d
      [] v.k = "str" -> <<QUOTE>> \o v.c \o <<QUOTE>>
      [] v.k = "list" -> <<"[">> \o DumpItems(v.items) \o <<"]">>
      [] v.k = "obj" -> <<"{">> \o DumpPairs(v.pairs) \o <<"}">>

(* ------------------------ message content ----------------------------- *)

\* message.content of a capability answer: a string, or None.
StrContent(t) == [kind |-> "str", text |-> t]
NoneContent == [kind |-> "none", text |-> <<>>]

\* Content as a list of parts. A part is a str, a dict (with its "type" and,
\* if it has_text, its "text" entry) or another object (with, if it
\* has_text, its text attribute).
StrPart(t) == [is |-> "str", type |-> "none", has_text |-> TRUE, text |-> t]
DictPart(type, t) == [is |-> "dict", type |-> type, has_text |-> TRUE, text |-> t]
ImagePart == [is |-> "dict", type |-> "image_url", has_text |-> FALSE, text |-> <<>>]
ObjectPart(t) == [is |-> "object", type |-> "none", has_text |-> TRUE, text |-> t]
OpaquePart == [is |-> "object", type |-> "none", has_text |-> FALSE, text |-> <<>>]
ListContent(parts) == [kind |-> "list", text |-> <<>>, parts |-> parts]

\* bool(content)
ContentTruthy(content) ==
    \/ content.kind = "str" /\ content.text # <<>>
    \/ content.kind = "list" /\ content.parts # <<>>

\* The loop over the parts: the texts it appends to text_parts.
RECURSIVE text_parts(_)
text_parts(parts) ==
    IF parts = <<>> THEN <<>>
    ELSE LET part == Head(parts) IN
         (IF part.is = "str" THEN <<part.text>>
          ELSE IF part.is = "dict"
          THEN (IF part.type = "text" /\ part.has_text THEN <<part.text>>
                ELSE IF part.has_text THEN <<part.text>>
                ELSE <<>>)
          ELSE IF part.has_text THEN <<part.text>>
          ELSE <<>>)
         \o text_parts(Tail(parts))

\* sep.join(ts)
RECURSIVE join(_, _)
join(sep, ts) ==
    IF ts = <<>> THEN <<>>
    ELSE IF Len(ts) = 1 THEN Head(ts)
    ELSE Head(ts) \o sep \o join(sep, Tail(ts))

\* Mutant: the texts are put together with nothing between them.
extract_message_content_concat(content) ==
    IF content.kind = "str" THEN content.text
    ELSE IF content.kind = "list" THEN join(<<>>, text_parts(content.parts))
    ELSE <<>>

extract_message_content(content) ==
    IF content.kind = "str" THEN content.text
    ELSE IF content.kind = "list" THEN join(<<NL>>, text_parts(content.parts))
    ELSE <<>>    \* str(content) if content else "", for None

(* ------------------- extract_json_from_response ----------------------- *)

\* re.findall of  ```json\s*([\s\S]*?)\s*```  (tagged) or of
\* ```\s*([\s\S]*?)\s*```  (untagged) from index i on: the captured groups.
RECURSIVE findall_block(_, _, _)
findall_block(t, i, tagged) ==
    LET opens == { p \in i..Len(t) :
                     /\ t[p] = FENCE
                     /\ tagged => (p + 1 <= Len(t) /\ t[p + 1] = "json") }
    IN
    IF opens = {} THEN <<>>
    ELSE LET p == Min(opens)
             s == SkipWs(t, p + (IF tagged THEN 2 ELSE 1))
             closes == { c \in s..Len(t) : t[c] = FENCE }
         IN
         IF closes = {} THEN findall_block(t, p + 1, tagged)
         ELSE LET c == Min(closes)
                  q == Min({ n \in s..c : \A m \in n..(c - 1) : t[m] \in Whitespace })
              IN <<SubSeq(t, s, q - 1)>> \o findall_block(t, c + 1, tagged)

\* Mutant: the search is lazy, the first { up to the first } after it.
search_object_lazy(t) ==
    LET lb == { n \in 1..Len(t) : t[n] = "{" } IN
    IF lb = {} THEN [found |-> FALSE, group |-> <<>>]
    ELSE LET rb == { n \in (Min(lb) + 1)..Len(t) : t[n] = "}" } IN
         IF rb = {} THEN [found |-> FALSE, group |-> <<>>]
         ELSE [found |-> TRUE, group |-> SubSeq(t, Min(lb), Min(rb))]

\* re.search of  \{[\s\S]*\} : the first { up to the last }.
search_object(t) ==
    LET lb == { n \in 1..Len(t) : t[n] = "{" } IN
    IF lb = {} THEN [found |-> FALSE, group |-> <<>>]
    ELSE LET rb == { n \in (Min(lb) + 1)..Len(t) : t[n] = "}" } IN
         IF rb = {} THEN [found |-> FALSE, group |-> <<>>]
         ELSE [found |-> TRUE, group |-> SubSeq(t, Min(lb), Max(rb))]

Returned(v) == [raised |-> FALSE, val |-> v]
\* An exception other than json.JSONDecodeError leaves the function.
Raised == [raised |-> TRUE, val |-> Null]

\* The loop over the json-tagged matches: the first that parses is returned,
\* after a print of result.keys(), which raises for a result that is no dict.
RECURSIVE first_json_block(_)
json_block_parsed(matches, r) ==
    IF r.ok
    THEN [hit |-> TRUE,
          out |-> IF r.val.k = "obj" THEN Returned(r.val) ELSE Raised]
    ELSE first_json_block(Tail(matches))

first_json_block(matches) ==
    IF matches = <<>> THEN [hit |-> FALSE, out |-> Raised]
    ELSE json_block_parsed(matches, json_loads(Head(matches)))

\* The loop over the untagged matches: the first that parses is returned.
RECURSIVE first_code_block(_)
code_block_parsed(matches, r) ==
    IF r.ok THEN [hit |-> TRUE, out |-> Returned(r.val)]
    ELSE first_code_block(Tail(matches))

first_code_block(matches) ==
    IF matches = <<>> THEN [hit |-> FALSE, out |-> Raised]
    ELSE code_block_parsed(matches, json_loads(Head(matches)))

\* The parse r of the raw object found, or the fallback document.
raw_object_parsed(t, found, r) ==
    IF found /\ r.ok THEN Returned(r.val)
    ELSE Returned(Obj(<< <<RAW_RESPONSE, Str(t)>> >>))

raw_object_found(t, m) == raw_object_parsed(t, m.found, json_loads(m.group))

raw_object_or_fallback(t) == raw_object_found(t, search_object(t))

\* b is what the loop over the untagged matches gave.
after_code_blocks(t, b) == IF b.hit THEN b.out ELSE raw_object_or_fallback(t)

code_blocks_on(t) ==
    after_code_blocks(t, first_code_block(findall_block(t, 1, FALSE)))

\* b is what the loop over the json-tagged matches gave.
after_json_blocks(t, b) == IF b.hit THEN b.out ELSE code_blocks_on(t)

json_blocks_on(t) ==
    after_json_blocks(t, first_json_block(findall_block(t, 1, TRUE)))

\* Mutant: the direct parse is left out.
extract_json_blocks_only(response_text) ==
    json_blocks_on(extract_message_content(response_text))

\* direct is what json.loads(response_text) gave.
after_direct_parse(t, direct) ==
    IF direct.ok THEN Returned(direct.val) ELSE json_blocks_on(t)

extract_from_text(t) == after_direct_parse(t, json_loads(t))

extract_json_from_response(response_text) ==
    extract_from_text(extract_message_content(response_text))



(* ------------------------------ state --------------------------------- *)

VARIABLES
    text,       \* extraction run: the response text given to the extractor
    flat,       \* extraction run: the text extract_message_content gave
    result,     \* extraction run: what extract_json_from_response gave
    epc,        \* extraction run: "input" before the call, "done" after,
                \* "post" after the summary check
    artifact,   \* extraction run: the plan the summary check made of result
    store,      \* the fitness_plans table: plan id -> row
    clock,      \* datetime.utcnow(), as a logical time
    uuids,      \* number of uuid.uuid4() values that became plan ids
    started,    \* number of requests started so far
    run,        \* per request handler: the request being served
    call,       \* per request handler: its latest call_openai_with_tools
    prof        \* profile lookup: a GET /profiling/{user_id} being served

vars == <<text, flat, result, epc, artifact, store, clock, uuids, started, run,
          call, prof>>

\* The handler of the server process: main.py runs one uvicorn process, and
\* its handlers block in every call they make (the OpenAI client, time.sleep
\* and the supabase client are synchronous), so requests are served one at a
\* time.
Handlers == {"p1"}
Users == {"u1", "u2"}
PlanTypes == {"workout", "meal", "both"}

\* request.profile, and the documents built around it.
PROFILE == <<"profile">>
UserProfileDoc == Obj(<< <<<<"profile_text">>, Str(PROFILE)>> >>)

\* Answers of the capability to a planner stage: no content, the empty
\* string, prose, an empty object, an object with a summary, a number, null.
Responses ==
    { NoneContent,
      StrContent(<<>>),
      StrContent(<<"x">>),
      StrContent(<<"{", "}">>),
      StrContent(<<"{", QUOTE, "summary", QUOTE, ":", "1", "}">>),
      StrContent(<<"1">>),
      StrContent(<<"null">>) }

\* Answers of the capability to the reasoning stage, whose text is used as
\* it is.
ReasoningResponses == { NoneContent, StrContent(<<"x">>) }

\* Exception classes the capability raises.
Errors == {"transient", "fatal"}

NoResponse == [status |-> 0, id |-> 0, workout_plan |-> Null, meal_plan |-> Null]
\* HTTPException(status_code=status)
Failure(status) ==
    [status |-> status, id |-> 0, workout_plan |-> Null, meal_plan |-> Null]

IdleRun ==
    [op |-> "idle", no |-> 0, pc |-> "idle", user_id |-> "none",
     plan_type |-> "none",
     attempt |-> 0, calling |-> FALSE, err |-> "none",
     waits |-> <<>>, paced |-> FALSE,
     task_instructions |-> NoneContent,
     workout_plan |-> Null, meal_plan |-> Null, plan_id |-> 0,
     writes |-> 0, events |-> <<>>, response |-> NoResponse,
     mh |-> <<>>]

\* The pcs at which a handler is inside call_openai_with_tools.
CallPcs == {"reason", "workout", "meal"}

(* ------------------------- the retry decorator ------------------------ *)

\* @retry(stop=stop_after_attempt(3), ..., reraise=True)
stop_after_attempt == 3

\* Mutant: the stop condition is off by one.
retry_stop_late(attempt_number) == attempt_number > stop_after_attempt

\* tenacity stops when the attempt just made is the last one allowed.
retry_stop(attempt_number) == attempt_number >= stop_after_attempt

\* wait=wait_exponential(multiplier=2, min=4, max=30)
wait_multiplier == 2
wait_min == 4
wait_max == 30

\* tenacity's wait_exponential after attempt attempt_number has failed:
\* max(max(0, min), min(multiplier * exp_base ** (attempt_number - 1), max)),
\* with exp_base at its default 2.
wait_exponential(attempt_number) ==
    Max({ Max({0, wait_min}),
          Min({ wait_multiplier * 2 ^ (attempt_number - 1), wait_max }) })

\* No retry= argument is given: tenacity retries on every exception.
retry_predicate(err) == TRUE

\* The number of the attempt a handler makes next.
AttemptNumber(r) == IF r.calling THEN r.attempt + 1 ELSE 1

\* The events of r with the stage's begin added on its first attempt.
WithBegin(r) ==
    IF r.calling THEN r.events ELSE Append(r.events, <<r.pc, "begin">>)

\* A handler that has left its function: its locals are gone, what it made
\* of the request stays until the response is sent.
Left(r, pc, response) ==
    [IdleRun EXCEPT !.op = r.op, !.no = r.no, !.pc = pc, !.user_id = r.user_id,
                    !.plan_type = r.plan_type, !.attempt = r.attempt,
                    !.err = r.err, !.waits = r.waits, !.plan_id = r.plan_id, !.writes = r.writes,
                    !.events = r.events, !.response = response,
                    !.mh = r.mh]

\* Mutant: the error response carries the plans made so far.
Fail500WithPlans(r) ==
    Left(r, "failed", [Failure(500) EXCEPT !.workout_plan = r.workout_plan,
                                          !.meal_plan = r.meal_plan])

\* except Exception: raise HTTPException(status_code=500)
Fail500(r) == Left(r, "failed", Failure(500))

(* --------------------------- generate_plan ---------------------------- *)

\* Mutant: the meal stage is run before the workout stage.
generate_plan_sequel_swapped(pc) ==
    CASE pc = "reason" -> "meal"
      [] pc = "meal" -> "sleep"
      [] pc = "sleep" -> "workout"
      [] pc = "workout" -> "save"
      [] pc = "save" -> "done"

\* Mutant: the plan is saved as soon as the workout stage has returned.
generate_plan_sequel_early_save(pc) ==
    CASE pc = "reason" -> "workout"
      [] pc = "workout" -> "save"
      [] pc = "sleep" -> "meal"
      [] pc = "meal" -> "save"
      [] pc = "save" -> "sleep"

\* Mutant: after the meal stage the handler goes back to the workout stage.
generate_plan_sequel_back(pc) ==
    CASE pc = "reason" -> "workout"
      [] pc = "workout" -> "sleep"
      [] pc = "sleep" -> "meal"
      [] pc = "meal" -> "workout"
      [] pc = "save" -> "done"

\* The order of the steps of generate_plan.
generate_plan_sequel(pc) ==
    CASE pc = "reason" -> "workout"
      [] pc = "workout" -> "sleep"
      [] pc = "sleep" -> "meal"
      [] pc = "meal" -> "save"
      [] pc = "save" -> "done"

\* Mutant: the summary is added to the extracted document, whose other keys
\* are kept.
ensure_summary_merged(plan, plan_text) ==
    IF plan.k # "obj" THEN Raised
    ELSE IF ~HasKey(plan, SUMMARY) \/ ~Truthy(Get(plan, SUMMARY))
    THEN IF ContentTruthy(plan_text)
         THEN Returned(Obj(Put(plan.pairs, SUMMARY, Str(plan_text.text))))
         ELSE IF HasKey(plan, RAW_RESPONSE)
         THEN Returned(Obj(Put(plan.pairs, SUMMARY, Get(plan, RAW_RESPONSE))))
         ELSE Returned(plan)
    ELSE Returned(plan)

\* "Ensure we have a summary field with actual content": the plan after the
\* check, or the exception the check raises on a plan that is no dict.
ensure_summary(plan, plan_text) ==
    CASE plan.k = "obj" ->
           IF ~HasKey(plan, SUMMARY) \/ ~Truthy(Get(plan, SUMMARY))
           THEN IF ContentTruthy(plan_text)
                THEN Returned(Obj(<< <<SUMMARY, Str(plan_text.text)>> >>))
                ELSE IF HasKey(plan, RAW_RESPONSE)
                THEN Returned(Obj(<< <<SUMMARY, Get(plan, RAW_RESPONSE)>> >>))
                ELSE Returned(plan)
           ELSE Returned(plan)
      [] plan.k = "list" ->
           \* `"summary" not in plan` is an element test; .get is no list method
           IF \E i \in 1..Len(plan.items) : plan.items[i] = Str(SUMMARY)
           THEN Raised
           ELSE Returned(Obj(<< <<SUMMARY, Str(plan_text.text)>> >>))
      [] plan.k = "str" ->
           \* `"summary" not in plan` is a substring test; .get is no str method
           IF \E i \in 1..Len(plan.c) : plan.c[i] = "summary"
           THEN Raised
           ELSE Returned(Obj(<< <<SUMMARY, Str(plan_text.text)>> >>))
      [] OTHER -> Raised   \* TypeError: argument of type ... is not iterable

\* A planner stage of generate_plan from the answer on: the plan, or Raised.
ensure_summary_of(x, content) ==
    IF x.raised THEN Raised ELSE ensure_summary(x.val, content)

plan_from_response(content) ==
    ensure_summary_of(extract_json_from_response(content), content)

\* generate_plan after the capability answered `content` at r.pc.
generate_plan_with(r, y) ==
    CASE r.pc = "reason" ->
           \* len(task_instructions) raises TypeError on None
           IF y.raised THEN Fail500(r)
           ELSE [r EXCEPT !.task_instructions = y.val,
                          !.pc = generate_plan_sequel("reason")]
      [] r.pc = "workout" ->
           IF y.raised THEN Fail500(r)
           ELSE [r EXCEPT !.workout_plan = y.val,
                          !.pc = generate_plan_sequel("workout")]
      [] r.pc = "meal" ->
           IF y.raised THEN Fail500(r)
           ELSE [r EXCEPT !.meal_plan = y.val,
                          !.pc = generate_plan_sequel("meal")]

generate_plan_after(r, content) ==
    generate_plan_with(r,
        IF r.pc = "reason"
        THEN (IF content.kind = "none" THEN Raised ELSE Returned(content))
        ELSE plan_from_response(content))

\* The row save_to_supabase inserts.
save_to_supabase_data(r, now) ==
    [user_id |-> r.user_id,
     user_profile |-> json_dumps(UserProfileDoc),
     reasoning_analysis |->
         json_dumps(Obj(<< <<TASK_INSTRUCTIONS, Str(r.task_instructions.text)>> >>)),
     workout_plan |-> json_dumps(r.workout_plan),
     meal_plan |-> json_dumps(r.meal_plan),
     created_at |-> now,
     updated_at |-> 0]

\* The body of the SimplePlanResponse generate_plan returns.
SimplePlanResponse(r, plan_id) ==
    [status |-> 200, id |-> plan_id,
     workout_plan |-> r.workout_plan, meal_plan |-> r.meal_plan]

(* ---------------------------- correct_plan ---------------------------- *)

\* Mutant: the query has no .eq("user_id", ...) filter.
LatestOfAnyone(u) ==
    IF DOMAIN store = {} THEN 0
    ELSE CHOOSE i \in DOMAIN store :
            \A j \in DOMAIN store : store[j].created_at <= store[i].created_at

\* .eq("user_id", u).order("created_at", desc=True).limit(1)
LatestOf(u) ==
    LET ids == { i \in DOMAIN store : store[i].user_id = u } IN
    IF ids = {} THEN 0
    ELSE CHOOSE i \in ids : \A j \in ids : store[j].created_at <= store[i].created_at

WorkoutTargeted(plan_type) == plan_type \in {"workout", "both"}

\* Mutant: the meal plan is corrected whatever the plan type.
MealTargetedAlways(plan_type) == TRUE

MealTargeted(plan_type) == plan_type \in {"meal", "both"}

\* correct_plan after the capability answered `content` at r.pc.
correct_plan_with(r, x) ==
    IF x.raised THEN Fail500(r)
    ELSE CASE r.pc = "workout" ->
                [r EXCEPT !.workout_plan = x.val,
                          !.pc = IF MealTargeted(r.plan_type)
                                 THEN "meal" ELSE "update"]
           [] r.pc = "meal" ->
                [r EXCEPT !.meal_plan = x.val, !.pc = "update"]

correct_plan_after(r, content) ==
    correct_plan_with(r, extract_json_from_response(content))

\* update_data of update_plan_in_supabase: the columns it sets.
update_data(workout_plan, meal_plan) ==
    (IF workout_plan # Null THEN {"workout_plan"} ELSE {})
    \cup (IF meal_plan # Null THEN {"meal_plan"} ELSE {})

\* Mutant: corrected_meal is passed whatever the plan type.
UpdateMealArgAlways(r) == r.meal_plan

\* The arguments correct_plan passes to update_plan_in_supabase.
UpdateWorkoutArg(r) ==
    IF WorkoutTargeted(r.plan_type) THEN r.workout_plan ELSE Null
UpdateMealArg(r) ==
    IF MealTargeted(r.plan_type) THEN r.meal_plan ELSE Null

\* Mutant: the response carries corrected_workout whatever the plan type.
ResponseWorkoutAlways(r) == r.workout_plan

\* The plans correct_plan puts in its response.
ResponseWorkout(r) ==
    IF WorkoutTargeted(r.plan_type) THEN r.workout_plan ELSE Null
ResponseMeal(r) ==
    IF MealTargeted(r.plan_type) THEN r.meal_plan ELSE Null

\* Mutant: the update writes the row anew, creation time included.
update_plan_in_supabase_anew(row, workout_plan, meal_plan, now) ==
    [row EXCEPT
        !.created_at = now,
        !.updated_at = now,
        !.workout_plan = IF workout_plan # Null THEN json_dumps(workout_plan) ELSE @,
        !.meal_plan = IF meal_plan # Null THEN json_dumps(meal_plan) ELSE @]

\* The row after .update(update_data).eq("id", plan_id).
update_plan_in_supabase(row, workout_plan, meal_plan, now) ==
    [row EXCEPT
        !.updated_at = now,
        !.workout_plan =
            IF "workout_plan" \in update_data(workout_plan, meal_plan)
            THEN json_dumps(workout_plan) ELSE @,
        !.meal_plan =
            IF "meal_plan" \in update_data(workout_plan, meal_plan)
            THEN json_dumps(meal_plan) ELSE @]

\* CorrectionResponse declares workout_plan, meal_plan: Optional[dict].
OptionalDict(v) == v.k \in {"obj", "null"}

\* The body of the CorrectionResponse correct_plan returns.
CorrectionResponse(r) ==
    [status |-> 200, id |-> r.plan_id,
     workout_plan |-> ResponseWorkout(r),
     meal_plan |-> ResponseMeal(r)]

(* ------------------- the conversation of one call --------------------- *)

\* A part of a prompt: a literal of the f-string, or a value put into it
\* (a text, or a document that json.dumps serialises into the prompt).
Piece(what, t, doc) == [what |-> what, text |-> t, doc |-> doc]

\* A message of a conversation; `by` is the run whose call put it in its list.
Message(role, content, by) == [role |-> role, content |-> content, by |-> by]

\* The block "Section 1: Assumptions ... Section 5: Risk Mitigation": the
\* OUTPUT FORMAT of the meal planner's system prompt (RESPONSE_FORMAT in
\* mani.py).
RESPONSE_FORMAT == Piece("response_format", <<"sections">>, Null)

REASONING_SUBAGENT_SYSTEM_PROMPT == <<Piece("system", <<"reasoning">>, Null)>>
\* The workout planner's prompt ends with its REQUIRED OUTPUT FORMAT, a JSON
\* schema.
WORKOUT_SUBAGENT_SYSTEM_PROMPT ==
    << Piece("system", <<"workout">>, Null),
       Piece("output_format", <<"json schema">>, Null) >>
MEAL_SUBAGENT_SYSTEM_PROMPT ==
    << Piece("system", <<"meal">>, Null), RESPONSE_FORMAT >>

reasoning_prompt ==
    << Piece("literal", <<"Analyze">>, Null),
       Piece("profile", PROFILE, Null),
       Piece("literal", <<"Generate">>, Null) >>

workout_prompt(task_instructions) ==
    << Piece("profile", PROFILE, Null),
       Piece("literal", <<"**TASK:**">>, Null),
       Piece("task_instructions", task_instructions.text, Null) >>

meal_prompt(task_instructions) ==
    << Piece("profile", PROFILE, Null),
       Piece("literal", <<"**TASK:**">>, Null),
       Piece("task_instructions", task_instructions.text, Null) >>

workout_correction_prompt(r) ==
    << Piece("literal", <<"corrections to their workout plan">>, Null),
       Piece("user_id", <<r.user_id>>, Null),
       Piece("user_profile", <<>>, UserProfileDoc),
       Piece("current_workout", <<>>, r.workout_plan),
       Piece("instruction", <<"instruction">>, Null),
       Piece("literal", <<"Return ONLY the corrected JSON workout plan">>, Null) >>

meal_correction_prompt(r) ==
    << Piece("literal", <<"corrections to their meal plan">>, Null),
       Piece("user_id", <<r.user_id>>, Null),
       Piece("user_profile", <<>>, UserProfileDoc),
       Piece("current_meal", <<>>, r.meal_plan),
       Piece("instruction", <<"instruction">>, Null),
       Piece("literal", <<"Return ONLY the corrected JSON meal plan">>, Null) >>

(* --------------------------- analyze_profile -------------------------- *)

\* mh is profile.medical_history: the seven PAR-Q+ answers and
\* physician_clearance. Each answer that is true appends its flag.
parq_flags(mh) ==
    (IF mh.heart_condition
     THEN <<"Heart condition or heart medication">> ELSE <<>>)
    \o (IF mh.chest_pain_activity
        THEN <<"Chest pain during physical activity">> ELSE <<>>)
    \o (IF mh.chest_pain_rest
        THEN <<"Chest pain at rest in past month">> ELSE <<>>)
    \o (IF mh.balance_consciousness
        THEN <<"Balance/consciousness issues">> ELSE <<>>)
    \o (IF mh.bone_joint_condition
        THEN <<"Bone/joint condition worsened by exercise">> ELSE <<>>)
    \o (IF mh.blood_pressure_medication
        THEN <<"Currently on blood pressure medication">> ELSE <<>>)
    \o (IF mh.other_reason_no_exercise
        THEN <<"Other reason to avoid exercise">> ELSE <<>>)

\* len(parq_flags) > 0 or not mh.physician_clearance
requires_medical_clearance(mh) ==
    Len(parq_flags(mh)) > 0 \/ ~mh.physician_clearance

\* reasoning_prompt of analyze_profile: the profile data, the instructions,
\* and the notice "MEDICAL CLEARANCE REQUIRED: This user has PAR-Q+ positive
\* responses." if requires_medical_clearance.
analyze_profile_prompt(mh) ==
    << Piece("literal", <<"Analyze">>, Null),
       Piece("profile_data", PROFILE, Null) >>
    \o (IF requires_medical_clearance(mh)
        THEN << Piece("notice",
                      <<"MEDICAL CLEARANCE REQUIRED: This user has PAR-Q+ positive responses.">>,
                      Null) >>
        ELSE <<>>)

\* The arguments messages= and system_prompt= of the call a handler makes at
\* r.pc.
messages_of(r) ==
    << Message("user",
               CASE r.op = "generate_plan" /\ r.pc = "reason" -> reasoning_prompt
                 [] r.op = "generate_plan" /\ r.pc = "workout" ->
                        workout_prompt(r.task_instructions)
                 [] r.op = "generate_plan" /\ r.pc = "meal" ->
                        meal_prompt(r.task_instructions)
                 [] r.op = "correct_plan" /\ r.pc = "workout" ->
                        workout_correction_prompt(r)
                 [] r.op = "correct_plan" /\ r.pc = "meal" ->
                        meal_correction_prompt(r)
                 [] r.op = "analyze_profile" ->
                        analyze_profile_prompt(r.mh),
               r.no) >>

system_prompt_of(r) ==
    CASE r.pc = "reason" -> REASONING_SUBAGENT_SYSTEM_PROMPT
      [] r.pc = "workout" -> WORKOUT_SUBAGENT_SYSTEM_PROMPT
      [] r.pc = "meal" -> MEAL_SUBAGENT_SYSTEM_PROMPT

\* Mutant: the list is one kept from call to call.
all_messages_kept(latest) == latest

\* all_messages = []: a new list, whatever the latest call's list held.
all_messages_new(latest) == <<>>

\* The list the first request carries: the system prompt, then the messages.
all_messages_built(r, latest) ==
    all_messages_new(latest)
    \o << Message("system", system_prompt_of(r), r.no) >>
    \o messages_of(r)

\* The list the second request carries: the answer with its tool calls and
\* the result of the tool are appended.
all_messages_with_tools(r, all_messages) ==
    all_messages
    \o << Message("assistant", <<Piece("tool_calls", <<>>, Null)>>, r.no),
          Message("tool", <<Piece("function_response", <<>>, Null)>>, r.no) >>

\* A handler's latest call: the request in flight ("first", "second" or
\* "none"), its list all_messages, and the requests the stage has sent.
IdleCall == [phase |-> "none", all_messages |-> <<>>, sent |-> <<>>]

(* -------------------- user_profiles and its readers ------------------- *)

ProfileIds == {"u1", "u2", "u3"}

\* What user_profiles holds for an id: no row, a row UserProfile accepts, or
\* a row its validation rejects.
RowKinds == {"absent", "valid", "invalid"}

\* None, where a UserProfile is expected.
NoUserProfile == [id |-> "none"]
UserProfile(user_id) == [id |-> user_id]

\* .select("*").eq("id", user_id).single().execute(): the response data, or
\* the exception of the client. For no row the client raises under
\* .single() (strict); a client that answers with no data is allowed for too.
single_execute(table, user_id, failed, strict) ==
    IF failed THEN [raised |-> TRUE, data |-> "none"]
    ELSE IF table[user_id] = "absent"
    THEN [raised |-> strict, data |-> "none"]
    ELSE [raised |-> FALSE, data |-> table[user_id]]

\* Mutant: the except clause raises the error again.
get_user_profile_by_id_reraising(table, user_id, failed, strict) ==
    LET response == single_execute(table, user_id, failed, strict) IN
    IF response.raised \/ response.data = "invalid"
    THEN [raised |-> TRUE, val |-> NoUserProfile]
    ELSE IF response.data = "none"
    THEN [raised |-> FALSE, val |-> NoUserProfile]
    ELSE [raised |-> FALSE, val |-> UserProfile(user_id)]

\* try: ... return UserProfile(**response.data) or None;
\* except Exception: return None
get_user_profile_by_id(table, user_id, failed, strict) ==
    LET response == single_execute(table, user_id, failed, strict) IN
    IF response.raised THEN [raised |-> FALSE, val |-> NoUserProfile]
    ELSE IF response.data = "none"
    THEN [raised |-> FALSE, val |-> NoUserProfile]
    ELSE IF response.data = "invalid"
    THEN [raised |-> FALSE, val |-> NoUserProfile]   \* ValidationError, caught
    ELSE [raised |-> FALSE, val |-> UserProfile(user_id)]

\* The documents get_profile returns.
ProfileNotFound == [error |-> "User profile not found", id |-> "none"]
model_dump(user_profile) == [error |-> "none", id |-> user_profile.id]

\* ProfilingAgent.get_profile: the document, or the exception that passes
\* through it.
get_profile(table, user_id, failed, strict) ==
    LET user_profile == get_user_profile_by_id(table, user_id, failed, strict) IN
    IF user_profile.raised THEN [raised |-> TRUE, val |-> ProfileNotFound]
    ELSE IF user_profile.val # NoUserProfile
    THEN [raised |-> FALSE, val |-> model_dump(user_profile.val)]
    ELSE [raised |-> FALSE, val |-> ProfileNotFound]

IdleProfile ==
    [pc |-> "off", table |-> [i \in ProfileIds |-> "absent"], user_id |-> "none",
     failed |-> FALSE,
     user_profile |-> [raised |-> FALSE, val |-> NoUserProfile],
     profile |-> [raised |-> FALSE, val |-> ProfileNotFound]]

(* ------------------------------ actions ------------------------------- *)

Init ==
    /\ text = NoneContent
    /\ flat = <<>>
    /\ result = Raised
    /\ epc = "off"
    /\ artifact = Raised
    /\ store = <<>>
    /\ clock = 0
    /\ uuids = 0
    /\ started = 0
    /\ run = [p \in Handlers |-> IdleRun]
    /\ call = [p \in Handlers |-> IdleCall]
    /\ prof = IdleProfile

PipelineIdle == UNCHANGED <<store, clock, uuids, started, run, call>>
ExtractIdle == UNCHANGED <<text, flat, result, epc, artifact>>
ProfileIdle == UNCHANGED prof

\* POST /generate-plan arrives.
StartGenerate(p, u) ==
    /\ run[p].op = "idle"
    /\ started < MaxRuns
    /\ started' = started + 1
    /\ run' = [run EXCEPT ![p] =
                 [IdleRun EXCEPT !.op = "generate_plan", !.no = started + 1,
                                 !.pc = "reason", !.user_id = u]]
    /\ UNCHANGED <<store, clock, uuids>>
    /\ UNCHANGED call
    /\ ExtractIdle
    /\ ProfileIdle

\* POST /correct-plan arrives.
StartCorrect(p, u, pt) ==
    /\ run[p].op = "idle"
    /\ started < MaxRuns
    /\ started' = started + 1
    /\ run' = [run EXCEPT ![p] =
                 [IdleRun EXCEPT !.op = "correct_plan", !.no = started + 1,
                                 !.pc = "lookup",
                                 !.user_id = u, !.plan_type = pt]]
    /\ UNCHANGED <<store, clock, uuids>>
    /\ UNCHANGED call
    /\ ExtractIdle
    /\ ProfileIdle

\* The handler r after an attempt of its call has raised err: the decorator
\* waits and calls again, or the error leaves the call.
attempt_raises(r, a, err) ==
    IF retry_predicate(err) /\ ~retry_stop(a)
    THEN [r EXCEPT !.attempt = a, !.calling = TRUE, !.err = err,
                   !.waits = Append(@, wait_exponential(a)),
                   !.paced = FALSE,
                   !.events = WithBegin(r)]
    ELSE Fail500([r EXCEPT
                    !.attempt = a, !.calling = FALSE, !.err = err,
                    !.events = Append(WithBegin(r), <<r.pc, "raised">>)])

\* Mutant: the handler calls the reasoning stage once more.
analyze_profile_again(r, x) ==
    IF Len(r.events) < 4 THEN [r EXCEPT !.pc = "reason"]
    ELSE Left(r, "done", [Failure(200) EXCEPT !.id = 0])

\* analyze_profile after its call: x is what extract_json_from_response
\* made of the answer. reasoning_output.get raises for what is no dict, and
\* the handler answers 500; the documents of the answers modelled hold none
\* of the keys read, so the defaults are taken. No call of the store.
analyze_profile_with(r, x) ==
    IF x.raised \/ x.val.k # "obj" THEN Fail500(r)
    ELSE Left(r, "done",
              [status |-> 200, id |-> 0, workout_plan |-> Null,
               meal_plan |-> Null,
               parq_flags |-> parq_flags(r.mh),
               requires_medical_clearance |-> requires_medical_clearance(r.mh),
               reasoning_analysis |-> x.val])

\* The handler after an attempt of its call has returned: it runs on to its
\* next call.
attempt_returns(ended, content) ==
    CASE ended.op = "generate_plan" -> generate_plan_after(ended, content)
      [] ended.op = "correct_plan" -> correct_plan_after(ended, content)
      [] ended.op = "analyze_profile" ->
             analyze_profile_with(ended, extract_json_from_response(content))

\* The answers the capability gives at r.pc.
ResponsesAt(r) ==
    IF r.op = "generate_plan" /\ r.pc = "reason"
    THEN ReasoningResponses ELSE Responses

\* The handler as its call returns.
Ended(r) ==
    [r EXCEPT !.attempt = 0, !.calling = FALSE,
              !.err = "none", !.waits = <<>>, !.paced = FALSE,
              !.events = Append(WithBegin(r), <<r.pc, "end">>)]

\* One attempt of call_openai_with_tools raises err.
CallRaises(p, err) ==
    LET r == run[p] IN
    /\ r.op \in {"generate_plan", "correct_plan"}
    /\ r.pc \in CallPcs
    /\ run' = [run EXCEPT ![p] = attempt_raises(r, AttemptNumber(r), err)]
    /\ UNCHANGED <<store, clock, uuids, started>>
    /\ UNCHANGED call
    /\ ExtractIdle
    /\ ProfileIdle

\* One attempt of call_openai_with_tools returns content; the handler runs on
\* to its next call.
CallReturns(p, content) ==
    LET r == run[p] IN
    /\ r.op \in {"generate_plan", "correct_plan"}
    /\ r.pc \in CallPcs
    /\ content \in ResponsesAt(r)
    /\ run' = [run EXCEPT ![p] = attempt_returns(Ended(r), content)]
    /\ UNCHANGED <<store, clock, uuids, started>>
    /\ UNCHANGED call
    /\ ExtractIdle
    /\ ProfileIdle

\* time.sleep(2) between the workout and the meal stage.
Sleep(p) ==
    /\ run[p].op = "generate_plan"
    /\ run[p].pc = "sleep"
    /\ run' = [run EXCEPT ![p].pc = generate_plan_sequel("sleep"),
                           ![p].paced = TRUE]
    /\ UNCHANGED <<store, clock, uuids, started>>
    /\ UNCHANGED call
    /\ ExtractIdle
    /\ ProfileIdle

\* .insert(data).execute() on a table keyed by id: the row is added, or a
\* row that has the id makes the store reject the insert.
insert(table, id, row) ==
    IF id \in DOMAIN table
    THEN [rejected |-> TRUE, table |-> table]
    ELSE [rejected |-> FALSE, table |-> table @@ (id :> row)]

\* Mutant: the row is upserted, and replaces a row that has the id.
save_to_supabase_upsert(table, id, row) ==
    [rejected |-> FALSE, table |-> (id :> row) @@ table]

\* supabase.table("fitness_plans").insert(data).execute()
save_to_supabase(table, id, row) == insert(table, id, row)

\* plan_id = str(uuid.uuid4()); await save_to_supabase(...); return.
\* uuid4 draws plan_id at random: a value never drawn before (the least one
\* no plan id has had stands for it), or, against all odds, one that a plan
\* has.
Save(p, stored, plan_id) ==
    LET r == run[p]
        saved == save_to_supabase(store, plan_id,
                                  save_to_supabase_data(r, clock + 1))
    IN
    /\ r.op = "generate_plan"
    /\ r.pc = "save"
    /\ plan_id \in 1..(uuids + 1)
    /\ IF stored /\ ~saved.rejected
       THEN /\ store' = saved.table
            /\ clock' = clock + 1
            /\ uuids' = Max({uuids, plan_id})
            /\ run' = [run EXCEPT ![p] =
                         Left([r EXCEPT !.plan_id = plan_id, !.writes = @ + 1],
                              generate_plan_sequel("save"),
                              SimplePlanResponse(r, plan_id))]
       ELSE /\ run' = [run EXCEPT ![p] = Fail500(r)]
            /\ UNCHANGED <<store, clock, uuids>>
    /\ UNCHANGED started
    /\ UNCHANGED call
    /\ ExtractIdle
    /\ ProfileIdle

\* correct_plan with the decoded columns w and m of its plan id.
current_plans(r, id, w, m) ==
    IF ~w.ok \/ ~m.ok THEN Fail500(r)
    ELSE [r EXCEPT !.plan_id = id,
                   !.workout_plan = w.val,
                   !.meal_plan = m.val,
                   !.pc = IF WorkoutTargeted(r.plan_type) THEN "workout" ELSE "meal"]

\* The lookup of the user's current plan, and the decoding of its columns.
Lookup(p, answered) ==
    LET r == run[p]
        id == LatestOf(r.user_id)
    IN
    /\ r.op = "correct_plan"
    /\ r.pc = "lookup"
    /\ run' = [run EXCEPT ![p] =
                 IF ~answered THEN Fail500(r)
                 ELSE IF id = 0
                 THEN Left(r, "failed", Failure(404))
                 ELSE current_plans(r, id, json_loads(store[id].workout_plan),
                                    json_loads(store[id].meal_plan))]
    /\ UNCHANGED <<store, clock, uuids, started>>
    /\ UNCHANGED call
    /\ ExtractIdle
    /\ ProfileIdle

\* Mutant: the update goes to the user's latest plan at the time of the
\* write.
UpdatePlanIdLatest(r) == LatestOf(r.user_id)

\* update_plan_in_supabase(plan_id=plan_id, ...): the id the lookup read.
UpdatePlanId(r) == r.plan_id

\* await update_plan_in_supabase(...); return CorrectionResponse(...).
Update(p, stored) ==
    LET r == run[p] IN
    /\ r.op = "correct_plan"
    /\ r.pc = "update"
    /\ IF stored
       THEN /\ store' =
                 IF UpdatePlanId(r) \in DOMAIN store
                 THEN [store EXCEPT ![UpdatePlanId(r)] =
                         update_plan_in_supabase(@, UpdateWorkoutArg(r),
                                                 UpdateMealArg(r), clock + 1)]
                 ELSE store
            /\ clock' = clock + 1
            /\ run' = [run EXCEPT ![p] =
                         IF OptionalDict(ResponseWorkout(r))
                            /\ OptionalDict(ResponseMeal(r))
                         THEN Left([r EXCEPT !.writes = @ + 1], "done",
                                   CorrectionResponse(r))
                         ELSE Fail500([r EXCEPT !.writes = @ + 1])]
       ELSE /\ run' = [run EXCEPT ![p] = Fail500(r)]
            /\ UNCHANGED <<store, clock>>
    /\ UNCHANGED <<uuids, started>>
    /\ UNCHANGED call
    /\ ExtractIdle
    /\ ProfileIdle

\* The response is sent; the handler is free for the next request.
Return(p) ==
    /\ run[p].pc \in {"done", "failed"}
    /\ run' = [run EXCEPT ![p] = IdleRun]
    /\ UNCHANGED <<store, clock, uuids, started>>
    /\ UNCHANGED call
    /\ ExtractIdle
    /\ ProfileIdle

Next ==
    \E p \in DOMAIN run :
        \/ \E u \in Users : StartGenerate(p, u)
        \/ \E u \in Users, pt \in PlanTypes : StartCorrect(p, u, pt)
        \/ \E err \in Errors : CallRaises(p, err)
        \/ \E content \in Responses : CallReturns(p, content)
        \/ Sleep(p)
        \/ \E stored \in BOOLEAN, plan_id \in 1..(uuids + 1) :
              Save(p, stored, plan_id)
        \/ \E answered \in BOOLEAN : Lookup(p, answered)
        \/ \E stored \in BOOLEAN : Update(p, stored)
        \/ Return(p)

Spec == Init /\ [][Next]_vars

\* A step of the request handler p is serving. Every call the handlers make
\* is a blocking call that returns or raises, and time.sleep returns, so a
\* handler that can take a step does take one.
RunStep(p) ==
    \/ \E err \in Errors : CallRaises(p, err)
    \/ \E content \in Responses : CallReturns(p, content)
    \/ Sleep(p)
    \/ \E stored \in BOOLEAN, plan_id \in 1..(uuids + 1) : Save(p, stored, plan_id)
    \/ \E answered \in BOOLEAN : Lookup(p, answered)
    \/ \E stored \in BOOLEAN : Update(p, stored)

SpecLive == Spec /\ \A p \in Handlers : WF_vars(RunStep(p))

(* ---------- call_openai_with_tools, request by request ---------------- *)

\* What the other actions of a handler leave alone while it is in a call.
InCall == UNCHANGED <<store, clock, uuids, started>>

\* An attempt begins: the list is built and the first request is sent.
SendFirst(p) ==
    LET r == run[p]
        c == call[p]
        all_messages == all_messages_built(r, c.all_messages)
    IN
    /\ r.op \in {"generate_plan", "correct_plan", "analyze_profile"}
    /\ r.pc \in CallPcs
    /\ c.phase = "none"
    /\ call' = [call EXCEPT ![p] =
                  [phase |-> "first", all_messages |-> all_messages,
                   sent |-> Append(c.sent, all_messages)]]
    /\ UNCHANGED run
    /\ InCall
    /\ ExtractIdle
    /\ ProfileIdle

\* The requests one attempt can send: the first, and the one that carries
\* the tool results.
requests_per_attempt == 2

\* Mutant: the answer to the second request is looked at for tool calls too.
tool_calls_answered_always(phase) == phase \in {"first", "second"}

\* Tool calls are looked for in the answer to the first request only: the
\* content of the second answer is returned as it is.
tool_calls_answered(phase) == phase = "first"

\* The first answer carries tool calls: the tools are run (ran, or one of
\* them raises) and the second request is sent with their results.
CallsTools(p, ran) ==
    LET r == run[p]
        c == call[p]
        all_messages == all_messages_with_tools(r, c.all_messages)
        raised == attempt_raises(r, AttemptNumber(r), "fatal")
    IN
    /\ r.pc \in CallPcs
    /\ tool_calls_answered(c.phase)
    /\ IF ran
       THEN /\ call' = [call EXCEPT ![p] =
                         [phase |-> "second", all_messages |-> all_messages,
                          sent |-> Append(c.sent, all_messages)]]
            /\ UNCHANGED run
       ELSE /\ run' = [run EXCEPT ![p] = raised]
            /\ call' = [call EXCEPT ![p].phase = "none",
                                     ![p].sent = IF raised.calling THEN @ ELSE <<>>]
    /\ InCall
    /\ ExtractIdle
    /\ ProfileIdle

\* The request in flight raises err.
RequestRaises(p, err) ==
    LET r == run[p]
        raised == attempt_raises(r, AttemptNumber(r), err)
    IN
    /\ r.pc \in CallPcs
    /\ call[p].phase \in {"first", "second"}
    /\ run' = [run EXCEPT ![p] = raised]
    /\ call' = [call EXCEPT ![p].phase = "none",
                             ![p].sent = IF raised.calling THEN @ ELSE <<>>]
    /\ InCall
    /\ ExtractIdle
    /\ ProfileIdle

\* The request in flight is answered with content and no tool calls: the
\* call returns it.
RequestReturns(p, content) ==
    LET r == run[p] IN
    /\ r.pc \in CallPcs
    /\ call[p].phase \in {"first", "second"}
    /\ content \in ResponsesAt(r)
    /\ run' = [run EXCEPT ![p] = attempt_returns(Ended(r), content)]
    /\ call' = [call EXCEPT ![p].phase = "none", ![p].sent = <<>>]
    /\ InCall
    /\ ExtractIdle
    /\ ProfileIdle

\* The inputs of the runs followed request by request.
InvokerUsers == {"u1"}
InvokerResponses ==
    { NoneContent,
      StrContent(<<"x">>),
      StrContent(<<"{", QUOTE, "summary", QUOTE, ":", "1", "}">>) }

NextInvoker ==
    \E p \in DOMAIN run :
        \/ \E u \in InvokerUsers : StartGenerate(p, u)
        \/ \E u \in InvokerUsers, pt \in PlanTypes : StartCorrect(p, u, pt)
        \/ SendFirst(p)
        \/ \E ran \in BOOLEAN : CallsTools(p, ran)
        \/ \E err \in Errors : RequestRaises(p, err)
        \/ \E content \in InvokerResponses : RequestReturns(p, content)
        \/ Sleep(p)
        \/ \E stored \in BOOLEAN, plan_id \in 1..(uuids + 1) :
              Save(p, stored, plan_id)
        \/ \E answered \in BOOLEAN : Lookup(p, answered)
        \/ \E stored \in BOOLEAN : Update(p, stored)
        \/ Return(p)

SpecInvoker == Init /\ [][NextInvoker]_vars

(* ------------------- two server processes, one table ------------------ *)

\* Two processes of the server work on the same fitness_plans table; each
\* serves its requests one at a time.
Workers == {"w1", "w2"}

\* A plan an earlier generate_plan run has saved for user u1.
SavedPlan ==
    save_to_supabase_data(
        [IdleRun EXCEPT !.user_id = "u1",
                        !.task_instructions = StrContent(<<"x">>),
                        !.workout_plan = Obj(<< <<SUMMARY, Str(<<"x">>)>> >>),
                        !.meal_plan = Obj(<< <<SUMMARY, Str(<<"x">>)>> >>)],
        1)

InitWorkers ==
    /\ text = NoneContent
    /\ flat = <<>>
    /\ result = Raised
    /\ epc = "off"
    /\ artifact = Raised
    /\ store = (1 :> SavedPlan)
    /\ clock = 1
    /\ uuids = 1
    /\ started = 0
    /\ run = [p \in Workers |-> IdleRun]
    /\ call = [p \in Workers |-> IdleCall]
    /\ prof = IdleProfile

\* The inputs of the runs of the two processes.
WorkerUsers == {"u1"}
WorkerErrors == {"transient"}
WorkerResponses ==
    { StrContent(<<"x">>),
      StrContent(<<"{", QUOTE, "summary", QUOTE, ":", "1", "}">>),
      StrContent(<<"null">>) }

NextWorkers ==
    \E p \in DOMAIN run :
        \/ \E u \in WorkerUsers : StartGenerate(p, u)
        \/ \E u \in WorkerUsers, pt \in PlanTypes : StartCorrect(p, u, pt)
        \/ \E err \in WorkerErrors : CallRaises(p, err)
        \/ \E content \in WorkerResponses : CallReturns(p, content)
        \/ Sleep(p)
        \/ \E stored \in BOOLEAN, plan_id \in 1..(uuids + 1) :
              Save(p, stored, plan_id)
        \/ \E answered \in BOOLEAN : Lookup(p, answered)
        \/ \E stored \in BOOLEAN : Update(p, stored)
        \/ Return(p)

SpecWorkers == InitWorkers /\ [][NextWorkers]_vars

(* ------------------------------ delete_plan --------------------------- *)

\* DELETE /plan/{plan_id}, one call of the store: the row is deleted and
\* the answer is 200, no row has the id (404), or the store fails (500).
delete_plan(p, plan_id, answered) ==
    LET r == [IdleRun EXCEPT !.op = "delete_plan", !.plan_id = plan_id] IN
    /\ run[p].op = "idle"
    /\ IF answered /\ plan_id \in DOMAIN store
       THEN /\ store' = [i \in DOMAIN store \ {plan_id} |-> store[i]]
            /\ run' = [run EXCEPT ![p] =
                         Left(r, "done", [Failure(200) EXCEPT !.id = plan_id])]
       ELSE /\ run' = [run EXCEPT ![p] =
                         Left(r, "failed",
                              Failure(IF answered THEN 404 ELSE 500))]
            /\ UNCHANGED store
    /\ UNCHANGED <<clock, uuids, started>>
    /\ UNCHANGED call
    /\ ExtractIdle
    /\ ProfileIdle

\* The two processes also serve delete_plan.
NextDelete ==
    \/ NextWorkers
    \/ \E p \in DOMAIN run, plan_id \in 1..uuids, answered \in BOOLEAN :
          delete_plan(p, plan_id, answered)

SpecDelete == InitWorkers /\ [][NextDelete]_vars

(* ---------------------- analyze_profile requests ---------------------- *)

\* POST /analyze-profile arrives with a profile the model accepts, and the
\* handler computes bmi, bmr, tdee and the calorie target. The fields are
\* bounded below only (height_cm, weight_kg: gt=0), so the arithmetic can
\* raise: int(bmr * multiplier) is an OverflowError for weight_kg = 1e308, and
\* weight / height_m ** 2 a ZeroDivisionError for height_cm = 1e-170. The
\* handler then answers 500 before it has called anything.
StartAnalyze(p, u, mh, computed) ==
    LET r == [IdleRun EXCEPT !.op = "analyze_profile", !.no = started + 1,
                             !.pc = "reason", !.user_id = u, !.mh = mh]
    IN
    /\ run[p].op = "idle"
    /\ started < MaxRuns
    /\ started' = started + 1
    /\ run' = [run EXCEPT ![p] =
                 IF computed THEN r
                 ELSE Fail500([r EXCEPT !.err = "ArithmeticError"])]
    /\ UNCHANGED <<store, clock, uuids>>
    /\ UNCHANGED call
    /\ ExtractIdle
    /\ ProfileIdle

\* The server with a plan in its table.
InitAnalyze ==
    /\ text = NoneContent
    /\ flat = <<>>
    /\ result = Raised
    /\ epc = "off"
    /\ artifact = Raised
    /\ store = (1 :> SavedPlan)
    /\ clock = 1
    /\ uuids = 1
    /\ started = 0
    /\ run = [p \in Handlers |-> IdleRun]
    /\ call = [p \in Handlers |-> IdleCall]
    /\ prof = IdleProfile

NextAnalyze ==
    \E p \in DOMAIN run :
        \/ \E u \in InvokerUsers,
              mh \in [heart_condition : BOOLEAN, chest_pain_activity : BOOLEAN,
                      chest_pain_rest : BOOLEAN, balance_consciousness : BOOLEAN,
                      bone_joint_condition : BOOLEAN,
                      blood_pressure_medication : BOOLEAN,
                      other_reason_no_exercise : BOOLEAN,
                      physician_clearance : BOOLEAN],
              computed \in BOOLEAN :
              StartAnalyze(p, u, mh, computed)
        \/ SendFirst(p)
        \/ \E ran \in BOOLEAN : CallsTools(p, ran)
        \/ \E err \in Errors : RequestRaises(p, err)
        \/ \E content \in Responses : RequestReturns(p, content)
        \/ Return(p)

SpecAnalyze == InitAnalyze /\ [][NextAnalyze]_vars

(* -------------------------- extraction runs --------------------------- *)

\* The parts a list-shaped content is made of, and the lists of them.
ListParts ==
    { StrPart(<<"x">>), StrPart(<<"1">>),
      DictPart("text", <<"x">>), DictPart("text", <<"1">>),
      DictPart("output_text", <<"x">>), ObjectPart(<<"1">>),
      ImagePart, OpaquePart }
PartLists == UNION { [1..n -> ListParts] : n \in 0..MaxListParts }

InitExtract ==
    /\ text \in { StrContent(t) : t \in Texts } \cup { NoneContent }
              \cup { ListContent(parts) : parts \in PartLists }
    /\ flat = <<>>
    /\ result = Raised
    /\ epc = "input"
    /\ artifact = Raised
    /\ store = <<>>
    /\ clock = 0
    /\ uuids = 0
    /\ started = 0
    /\ run = [p \in Handlers |-> IdleRun]
    /\ call = [p \in Handlers |-> IdleCall]
    /\ prof = IdleProfile

Extract ==
    /\ epc = "input"
    /\ flat' = extract_message_content(text)
    /\ result' = extract_json_from_response(text)
    /\ epc' = "done"
    /\ UNCHANGED <<text, artifact>>
    /\ PipelineIdle
    /\ ProfileIdle

\* The summary check generate_plan makes on what the extractor gave.
EnsureSummary ==
    /\ epc = "done"
    /\ text.kind \in {"str", "none"}   \* what a chat completion's content is
    /\ artifact' = ensure_summary_of(result, text)
    /\ epc' = "post"
    /\ UNCHANGED <<text, flat, result>>
    /\ PipelineIdle
    /\ ProfileIdle

NextExtract == Extract \/ EnsureSummary

SpecExtract == InitExtract /\ [][NextExtract]_vars

(* ------------------------- the profile lookup ------------------------- *)

InitProfile ==
    /\ text = NoneContent
    /\ flat = <<>>
    /\ result = Raised
    /\ epc = "off"
    /\ artifact = Raised
    /\ store = <<>>
    /\ clock = 0
    /\ uuids = 0
    /\ started = 0
    /\ run = [p \in Handlers |-> IdleRun]
    /\ call = [p \in Handlers |-> IdleCall]
    /\ \E table \in [ProfileIds -> RowKinds], user_id \in ProfileIds :
          prof = [IdleProfile EXCEPT !.pc = "request", !.table = table,
                                     !.user_id = user_id]

\* ProfilingAgent.get_profile(user_id) is called and returns or raises.
GetProfile(failed, strict) ==
    /\ prof.pc = "request"
    /\ prof' = [prof EXCEPT
                  !.pc = "done",
                  !.failed = failed,
                  !.user_profile =
                      get_user_profile_by_id(prof.table, prof.user_id, failed, strict),
                  !.profile =
                      get_profile(prof.table, prof.user_id, failed, strict)]
    /\ PipelineIdle
    /\ ExtractIdle

NextProfile == \E failed \in BOOLEAN, strict \in BOOLEAN : GetProfile(failed, strict)

SpecProfile == InitProfile /\ [][NextProfile]_vars

(* ------------------------------ claims -------------------------------- *)

\* The decoded value of a stored column.
Decoded(column) == json_loads(column).val

\* A document with a non-empty primary field.
HasSummary(v) == v.k = "obj" /\ HasKey(v, SUMMARY) /\ Truthy(Get(v, SUMMARY))

\* The plans of user u.
PlansOf(u) == { i \in DOMAIN store : store[i].user_id = u }

\* A step of handler p.
Steps(p) == run'[p] # run[p]

\* C1: extract_json_from_response never raises and returns a key-to-value
\* document (a mapping), never a list, a scalar or null, for every text.
C1_ExtractTotalDocument ==
    epc = "done" => (~result.raised /\ result.val.k = "obj")

\* C2: every stored plan has a workout_plan and a meal_plan that are documents
\* with a non-empty summary, after every insert and every update.
C2_StoredPlansHaveSummary ==
    \A i \in DOMAIN store :
        /\ HasSummary(Decoded(store[i].workout_plan))
        /\ HasSummary(Decoded(store[i].meal_plan))

StageRank(stage) ==
    CASE stage = "reason" -> 1 [] stage = "workout" -> 2 [] stage = "meal" -> 3
EventRank(e) == 2 * StageRank(e[1]) + (IF e[2] = "begin" THEN 0 ELSE 1)
StageBefore(stage) == IF stage = "meal" THEN "workout" ELSE "reason"

\* C3: in a generate_plan run the reasoning stage has returned before the
\* workout stage begins, and the workout stage before the meal stage begins;
\* no stage is entered twice, and every retry falls inside its stage.
C3_StageOrder ==
    \A p \in DOMAIN run :
        run[p].op = "generate_plan" =>
            LET ev == run[p].events IN
            /\ \A i, j \in 1..Len(ev) :
                   i < j => EventRank(ev[i]) < EventRank(ev[j])
            /\ \A i \in 1..Len(ev) :
                   (ev[i][2] = "begin" /\ ev[i][1] # "reason") =>
                       (i > 1 /\ ev[i - 1] = <<StageBefore(ev[i][1]), "end">>)
            /\ run[p].calling => ev[Len(ev)] = <<run[p].pc, "begin">>

\* A generate_plan run retrying its meal stage for the second time.
C3_Witness ==
    \E p \in DOMAIN run :
        /\ run[p].op = "generate_plan"
        /\ run[p].pc = "meal"
        /\ run[p].calling
        /\ run[p].attempt = 2

AllStagesEnded(ev) ==
    \A stage \in {"reason", "workout", "meal"} :
        \E i \in 1..Len(ev) : ev[i] = <<stage, "end">>

\* C4: a generate_plan run writes the store at most once, by one insert, after
\* its three stages have returned; a run that fails has written nothing.
C4_SingleInsertAfterStages ==
    [][\A p \in DOMAIN run :
         (run[p].op = "generate_plan" /\ run'[p].op = "generate_plan" /\ Steps(p)) =>
             /\ store' # store =>
                   /\ run[p].writes = 0
                   /\ run'[p].writes = 1
                   /\ AllStagesEnded(run[p].events)
                   /\ run'[p].response.status = 200
                   /\ Cardinality(DOMAIN store') = Cardinality(DOMAIN store) + 1
                   /\ \A i \in DOMAIN store : store'[i] = store[i]
             /\ store' = store => run'[p].writes = run[p].writes
             /\ run'[p].pc = "failed" => (run'[p].writes = 0 /\ store' = store)
      ]_vars

\* A generate_plan run that has inserted its plan.
C4_Witness ==
    \E p \in DOMAIN run :
        /\ run[p].op = "generate_plan"
        /\ run[p].pc = "done"
        /\ run[p].writes = 1
        /\ run[p].plan_id \in DOMAIN store

\* C5: the update of a correct_plan run with target workout leaves every
\* stored meal_plan as it was and sets no meal_plan column, and the update
\* of a run with target meal does the same for workout_plan.
C5_UntargetedPlanUntouched ==
    [][\A p \in DOMAIN run :
         (run[p].op = "correct_plan" /\ run[p].pc = "update" /\ Steps(p)) =>
             /\ DOMAIN store' = DOMAIN store
             /\ run[p].plan_type = "workout" =>
                   /\ "meal_plan" \notin
                          update_data(UpdateWorkoutArg(run[p]), UpdateMealArg(run[p]))
                   /\ \A i \in DOMAIN store :
                          store'[i].meal_plan = store[i].meal_plan
             /\ run[p].plan_type = "meal" =>
                   /\ "workout_plan" \notin
                          update_data(UpdateWorkoutArg(run[p]), UpdateMealArg(run[p]))
                   /\ \A i \in DOMAIN store :
                          store'[i].workout_plan = store[i].workout_plan
      ]_vars

\* A correction of the workout plan alone that has changed the stored plan.
C5_Witness ==
    \E p \in DOMAIN run :
        /\ run[p].op = "correct_plan"
        /\ run[p].plan_type = "workout"
        /\ run[p].pc = "done"
        /\ run[p].plan_id \in DOMAIN store
        /\ store[run[p].plan_id].workout_plan = json_dumps(run[p].response.workout_plan)
        /\ store[run[p].plan_id].workout_plan # store[run[p].plan_id].meal_plan

C7_ThreeAttempts ==
    [][\A p \in DOMAIN run :
         (run[p].pc \in CallPcs /\ Steps(p)) =>
             LET n == IF run[p].calling THEN run[p].attempt + 1 ELSE 1
                 ev == run'[p].events
             IN
             /\ n <= 3
             /\ run'[p].attempt \in {0, n}
             /\ run'[p].err = "none" =>
                   ev[Len(ev)] = <<run[p].pc, "end">>
             /\ (run'[p].err # "none" /\ n = 3) =>
                   /\ run'[p].pc = "failed"
                   /\ run'[p].response.status = 500
                   /\ ev[Len(ev)] = <<run[p].pc, "raised">>
             /\ (run'[p].err # "none" /\ n < 3) =>
                   /\ run'[p].pc = run[p].pc
                   /\ run'[p].calling
                   /\ run'[p].attempt = n
      ]_vars

\* A stage whose third attempt failed with a transient error.
C7_Witness ==
    \E p \in DOMAIN run :
        /\ run[p].pc = "failed"
        /\ run[p].attempt = 3
        /\ run[p].err = "transient"

\* C8: an attempt that raises a fatal error is not retried: the invoker is
\* never waiting to make a further attempt after a fatal error.
C8_FatalNotRetried ==
    \A p \in DOMAIN run : ~(run[p].calling /\ run[p].err = "fatal")

\* C9: correct_plan for a user without a stored plan answers 404 when the
\* lookup is answered, having called the capability and written the store
\* not at all; 404 is given in no other case, a failed lookup gives 500.
C9_NotFound ==
    [][\A p \in DOMAIN run :
         (run[p].op = "correct_plan" /\ run[p].pc = "lookup" /\ Steps(p)) =>
             /\ store' = store
             /\ run'[p].events = <<>>
             /\ run'[p].writes = 0
             /\ PlansOf(run[p].user_id) = {} =>
                   /\ run'[p].pc = "failed"
                   /\ run'[p].response.status \in {404, 500}
             /\ PlansOf(run[p].user_id) # {} =>
                   /\ run'[p].response.status \in {0, 500}
                   /\ run'[p].response.status = 0 =>
                          /\ run'[p].pc \in CallPcs
                          /\ run'[p].plan_id \in PlansOf(run[p].user_id)
      ]_vars

\* A correction answered 404 for a user without a plan while another user
\* has one.
C9_Witness ==
    \E p \in DOMAIN run :
        /\ run[p].op = "correct_plan"
        /\ run[p].response.status = 404
        /\ PlansOf(run[p].user_id) = {}
        /\ store # <<>>

\* C10: for every text that is valid JSON by itself, the extractor returns
\* the direct parse of the text, whatever blocks or braces it contains.
C10_RoundTrip ==
    (epc = "done" /\ text.kind = "str" /\ json_loads(text.text).ok) =>
        result = Returned(json_loads(text.text).val)

\* A valid JSON text with a fenced block inside has been extracted.
C10_Witness ==
    /\ epc = "done"
    /\ text.kind = "str"
    /\ json_loads(text.text).ok
    /\ findall_block(text.text, 1, FALSE) # <<>>

\* The fenced blocks of t: an opening and the next closing run of backticks,
\* json-tagged or not.
FencedBlocks(t, tagged) ==
    { b \in (1..Len(t)) \X (1..Len(t)) :
        /\ b[1] < b[2]
        /\ t[b[1]] = FENCE /\ t[b[2]] = FENCE
        /\ \A n \in (b[1] + 1)..(b[2] - 1) : t[n] # FENCE
        /\ tagged <=> t[b[1] + 1] = "json" }

\* What json.loads makes of the content of block b.
BlockParse(t, b, tagged) ==
    json_loads(SubSeq(t, b[1] + (IF tagged THEN 2 ELSE 1), b[2] - 1))

\* C11: for a text that does not parse directly and holds a json-tagged block
\* with valid JSON and an untagged block with invalid content, in either
\* order, the extractor returns the parse of the tagged block.
C11_TaggedBlockWins ==
    (/\ epc = "done" /\ text.kind = "str"
     /\ ~json_loads(text.text).ok
     /\ \E b \in FencedBlocks(text.text, TRUE) : BlockParse(text.text, b, TRUE).ok
     /\ \E b \in FencedBlocks(text.text, FALSE) : ~BlockParse(text.text, b, FALSE).ok)
    => \E b \in FencedBlocks(text.text, TRUE) :
           /\ BlockParse(text.text, b, TRUE).ok
           /\ result = Returned(BlockParse(text.text, b, TRUE).val)

\* The indices of the matches that json.loads accepts.
ParsedIn(matches) == { i \in 1..Len(matches) : json_loads(matches[i]).ok }

FirstParsed(matches) == json_loads(matches[Min(ParsedIn(matches))]).val

\* The cascade as the claim states it, from the fenced blocks on.
CascadeGreedy(t, g) ==
    IF g.found /\ json_loads(g.group).ok THEN json_loads(g.group).val
    ELSE Obj(<< <<RAW_RESPONSE, Str(t)>> >>)

CascadeBlocks(t, tagged, untagged) ==
    IF ParsedIn(tagged) # {} THEN FirstParsed(tagged)
    ELSE IF ParsedIn(untagged) # {} THEN FirstParsed(untagged)
    ELSE CascadeGreedy(t, search_object(t))

Cascade(t) ==
    IF json_loads(t).ok THEN json_loads(t).val
    ELSE CascadeBlocks(t, findall_block(t, 1, TRUE), findall_block(t, 1, FALSE))

\* C12: the extractor returns the direct parse, else the parse of the first
\* json-tagged block that parses, else that of the first untagged block that
\* parses, else that of the first-brace-to-last-brace substring, else exactly
\* the raw_response document.
C12_CascadeOrder ==
    (epc = "done" /\ text.kind = "str") => result = Returned(Cascade(text.text))

\* The extractor gave a document without a summary for a non-empty text.
LacksSummary ==
    /\ epc = "post"
    /\ text.kind = "str" /\ text.text # <<>>
    /\ ~result.raised
    /\ result.val.k = "obj"
    /\ ~HasKey(result.val, SUMMARY)

\* C13: when the extracted document lacks summary and the raw text is not
\* empty, the artifact is the extracted document with summary set to the raw
\* text and every other key kept.
C13_SummaryAddedKeysKept ==
    LacksSummary =>
        artifact = Returned(Obj(Put(result.val.pairs, SUMMARY, Str(text.text))))

\* C13, amended: when the extracted document lacks summary and the raw text
\* is not empty, the artifact is the document whose only key is summary,
\* set to the raw text.
C13_SummaryReplacesDocument ==
    LacksSummary => artifact = Returned(Obj(<< <<SUMMARY, Str(text.text)>> >>))

\* Prose was extracted to the raw_response document and then checked.
C13_Witness ==
    /\ LacksSummary
    /\ text.text = <<"x">>
    /\ HasKey(result.val, RAW_RESPONSE)
    /\ ~artifact.raised

\* The number of the attempt a step inside a stage makes.
AttemptMade(r) == IF r.calling THEN r.attempt + 1 ELSE 1

\* C14: no response text makes a generate_plan run fail: a run fails only by
\* an invocation error on the invoker's last attempt or by a store error.
C14_TextNeverFails ==
    [][\A p \in DOMAIN run :
         (run[p].op = "generate_plan" /\ run[p].pc # "failed"
          /\ run'[p].pc = "failed") =>
             \/ run[p].pc = "save"
             \/ /\ run[p].pc \in {"reason", "workout", "meal"}
                /\ run'[p].err # "none"
                /\ AttemptMade(run[p]) = 3
      ]_vars

\* C15: when a stage of generate_plan has used up its attempts or the insert
\* fails, the run ends failed: the response is an error with no plan in it,
\* the store is as it was, and the run invokes no stage afterwards.
C15_FailureEndsRun ==
    [][\A p \in DOMAIN run :
         (run[p].op = "generate_plan" /\ Steps(p)) =>
             /\ (/\ run[p].pc \in {"reason", "workout", "meal"}
                 /\ run'[p].err # "none"
                 /\ AttemptMade(run[p]) = 3) => run'[p].pc = "failed"
             /\ (run[p].pc = "save" /\ store' = store) => run'[p].pc = "failed"
             /\ run'[p].pc = "failed" =>
                   /\ run'[p].response.status = 500
                   /\ run'[p].response.id = 0
                   /\ run'[p].response.workout_plan = [k |-> "null"]
                   /\ run'[p].response.meal_plan = [k |-> "null"]
                   /\ store' = store
             /\ run[p].pc = "failed" =>
                   /\ run'[p].op = "idle"
                   /\ run'[p].events = <<>>
      ]_vars

\* A generate_plan run that failed in its meal stage, the workout plan made.
C15_Witness ==
    \E p \in DOMAIN run :
        /\ run[p].op = "generate_plan"
        /\ run[p].pc = "failed"
        /\ run[p].err = "fatal"
        /\ \E i \in 1..Len(run[p].events) : run[p].events[i] = <<"workout", "end">>
        /\ run[p].events[Len(run[p].events)] = <<"meal", "raised">>

\* C16: the update of a successful correct_plan changes no id: the stored ids
\* are the same before and after, every row keeps its user, profile,
\* reasoning output and creation time, the other rows are untouched, and the
\* id returned is the id read by the lookup, a plan of the same user.
C16_UpdateKeepsRecord ==
    [][\A p \in DOMAIN run :
         (run[p].op = "correct_plan" /\ run[p].pc = "update" /\ Steps(p)) =>
             /\ DOMAIN store' = DOMAIN store
             /\ \A i \in DOMAIN store :
                   /\ store'[i].user_id = store[i].user_id
                   /\ store'[i].user_profile = store[i].user_profile
                   /\ store'[i].reasoning_analysis = store[i].reasoning_analysis
                   /\ store'[i].created_at = store[i].created_at
                   /\ i # run[p].plan_id => store'[i] = store[i]
             /\ run'[p].pc = "done" =>
                   /\ run'[p].response.id = run[p].plan_id
                   /\ run[p].plan_id \in DOMAIN store
                   /\ store[run[p].plan_id].user_id = run[p].user_id
                   /\ store'[run[p].plan_id].updated_at > store[run[p].plan_id].updated_at
      ]_vars

\* A correction has updated a plan made earlier.
C16_Witness ==
    \E p \in DOMAIN run :
        /\ run[p].op = "correct_plan"
        /\ run[p].pc = "done"
        /\ run[p].response.status = 200
        /\ store[run[p].response.id].updated_at > store[run[p].response.id].created_at

\* The stage events of a correction of plan_type that has made all its calls.
EventsOfCorrection(plan_type) ==
    CASE plan_type = "workout" -> << <<"workout", "begin">>, <<"workout", "end">> >>
      [] plan_type = "meal" -> << <<"meal", "begin">>, <<"meal", "end">> >>
      [] plan_type = "both" -> << <<"workout", "begin">>, <<"workout", "end">>,
                                  <<"meal", "begin">>, <<"meal", "end">> >>

\* C17: a correct_plan run invokes the capability for one stage per targeted
\* artifact and for no untargeted one, never a stage twice, and with target
\* both the workout stage has ended when the meal stage begins.
C17_OneStagePerTarget ==
    \A p \in DOMAIN run :
        run[p].op = "correct_plan" =>
            LET ev == run[p].events
                all == EventsOfCorrection(run[p].plan_type)
            IN
            /\ Len(ev) <= Len(all)
            /\ \A i \in 1..Len(ev) :
                   \/ ev[i] = all[i]
                   \/ i = Len(ev) /\ ev[i] = <<all[i][1], "raised">> /\ all[i][2] = "end"
            /\ run[p].pc \in {"update", "done"} => ev = all

\* A correction of both plans that has made both its calls.
C17_Witness ==
    \E p \in DOMAIN run :
        /\ run[p].op = "correct_plan"
        /\ run[p].plan_type = "both"
        /\ run[p].pc = "done"
        /\ Len(run[p].events) = 4

\* C18: the first wait between attempts is 4, each later wait is double the
\* one before (up to the ceiling of 30), and no wait is above 30.
C18_WaitsDouble ==
    \A p \in DOMAIN run :
        LET w == run[p].waits IN
        /\ \A i \in 1..Len(w) : w[i] <= 30
        /\ Len(w) >= 1 => w[1] = 4
        /\ \A i \in 2..Len(w) : w[i] = Min({2 * w[i - 1], 30})

\* C19: a run about to begin a stage that is not its first has made its
\* pacing delay since the stage before returned.
C19_PacedBetweenStages ==
    \A p \in DOMAIN run :
        (/\ run[p].pc \in {"reason", "workout", "meal"}
         /\ ~run[p].calling
         /\ run[p].events # <<>>) => run[p].paced

\* Every targeted artifact's stage of the correction has returned.
TargetedStagesEnded(r) ==
    /\ r.plan_type \in {"workout", "both"} =>
           \E i \in 1..Len(r.events) : r.events[i] = <<"workout", "end">>
    /\ r.plan_type \in {"meal", "both"} =>
           \E i \in 1..Len(r.events) : r.events[i] = <<"meal", "end">>

\* C20: a correct_plan run writes the store only in its one update, after the
\* stage of every targeted artifact has returned, and that update writes the
\* value each targeted stage gave; a run that fails in a stage has written
\* nothing.
C20_WriteAfterStage ==
    [][\A p \in DOMAIN run :
         (run[p].op = "correct_plan" /\ run'[p].op = "correct_plan" /\ Steps(p)) =>
             /\ store' # store =>
                   /\ run[p].pc = "update"
                   /\ run[p].writes = 0 /\ run'[p].writes = 1
                   /\ TargetedStagesEnded(run[p])
                   /\ run[p].plan_type \in {"workout", "both"} =>
                          store'[run[p].plan_id].workout_plan
                              = json_dumps(run[p].workout_plan)
                   /\ run[p].plan_type \in {"meal", "both"} =>
                          store'[run[p].plan_id].meal_plan
                              = json_dumps(run[p].meal_plan)
             /\ run[p].pc # "update" =>
                   /\ store' = store
                   /\ run'[p].writes = 0
      ]_vars

\* A message without the mark of the run that made it.
Turn(role, content) == [role |-> role, content |-> content]
Bare(ms) == [i \in DOMAIN ms |-> Turn(ms[i].role, ms[i].content)]

\* turns occur in ms, in their order.
RECURSIVE Embeds(_, _)
Embeds(ms, turns) ==
    IF turns = <<>> THEN TRUE
    ELSE IF ms = <<>> THEN FALSE
    ELSE IF Head(ms) = Head(turns) THEN Embeds(Tail(ms), Tail(turns))
    ELSE Embeds(Tail(ms), turns)

\* The turns of the stages generate_plan has gone through before r.pc: the
\* request and the answer of the reasoning stage, then the request of the
\* workout stage.
TurnsBefore(r) ==
    << Turn("user", reasoning_prompt),
       Turn("assistant", <<Piece("answer", r.task_instructions.text, Null)>>) >>
    \o (IF r.pc = "meal"
        THEN <<Turn("user", workout_prompt(r.task_instructions))>>
        ELSE <<>>)

\* C21: the conversation a request of the workout stage carries holds the
\* turn of the reasoning stage, and the one a request of the meal stage
\* carries holds the reasoning turn and then the workout turn.
C21_HistoryCarried ==
    \A p \in DOMAIN run :
        ( /\ run[p].op = "generate_plan"
          /\ run[p].pc \in {"workout", "meal"}
          /\ call[p].phase # "none" )
        => Embeds(Bare(call[p].all_messages), TurnsBefore(run[p]))

\* The parts of all the messages of a conversation.
RECURSIVE PiecesOf(_)
PiecesOf(ms) ==
    IF ms = <<>> THEN {}
    ELSE { Head(ms).content[i] : i \in DOMAIN Head(ms).content }
         \cup PiecesOf(Tail(ms))

\* C24: every request of the workout and of the meal stage of generate_plan
\* holds the input profile, the answer of the run's reasoning stage as text,
\* and the fixed response-format directive.
C24_RequestHoldsAllThree ==
    \A p \in DOMAIN run :
        ( /\ run[p].op = "generate_plan"
          /\ run[p].pc \in {"workout", "meal"}
          /\ call[p].phase # "none" )
        => /\ Piece("profile", PROFILE, Null) \in PiecesOf(call[p].all_messages)
           /\ Piece("task_instructions", run[p].task_instructions.text, Null)
                  \in PiecesOf(call[p].all_messages)
           /\ RESPONSE_FORMAT \in PiecesOf(call[p].all_messages)

\* Every message of the conversation ms was put there by run number no.
MadeBy(ms, no) == \A j \in DOMAIN ms : ms[j].by = no

Textual(part) == part.has_text
TextsIn(parts) ==
    LET kept == SelectSeq(parts, Textual) IN [i \in DOMAIN kept |-> kept[i].text]

\* Texts with a newline after each but the last.
NewlineBetween(ts) ==
    [i \in DOMAIN ts |-> IF i < Len(ts) THEN ts[i] \o <<NL>> ELSE ts[i]]

\* C23 as claimed: a part list flattens to the concatenation of the texts of
\* its textual parts, in order and with nothing between them, and a plain
\* string flattens to itself.
C23_FlattenConcatenates ==
    epc = "done" =>
        /\ text.kind = "list" => flat = Concat(TextsIn(text.parts))
        /\ text.kind = "str" => flat = text.text

\* C23, amended: a part list flattens to the texts of its textual parts, in
\* order, with one newline between each two of them and nothing else added;
\* non-textual parts are ignored; a plain string flattens to itself.
C23_FlattenJoinsWithNewline ==
    epc = "done" =>
        /\ text.kind = "list" => flat = Concat(NewlineBetween(TextsIn(text.parts)))
        /\ text.kind = "str" => flat = text.text

\* A list of a textual part, a non-textual part and a textual part has been
\* flattened.
C23_Witness ==
    /\ epc = "done"
    /\ text.kind = "list"
    /\ Len(text.parts) = 3
    /\ Textual(text.parts[1]) /\ ~Textual(text.parts[2]) /\ Textual(text.parts[3])
    /\ flat = text.parts[1].text \o <<NL>> \o text.parts[3].text

\* C25: an insert of generate_plan is of an id that no row has, so no two
\* runs insert with the same id, and it adds its row and leaves every row
\* that exists as it is.
C25_InsertIsOfNewId ==
    [][\A p \in DOMAIN run :
         ( /\ run[p].op = "generate_plan"
           /\ run[p].pc = "save"
           /\ run'[p] # run[p]
           /\ store' # store )
         => /\ run'[p].plan_id \notin DOMAIN store
            /\ DOMAIN store' = DOMAIN store \cup {run'[p].plan_id}
            /\ \A i \in DOMAIN store : store'[i] = store[i]
            /\ \A q \in DOMAIN run \ {p} : run[q].plan_id # run'[p].plan_id
      ]_vars

\* Two generate_plan runs, one in each process, have inserted their plans
\* beside the plan that was there.
C25_Witness ==
    \E p, q \in DOMAIN run :
        /\ p # q
        /\ run[p].op = "generate_plan" /\ run[p].pc = "done"
        /\ run[q].op = "generate_plan" /\ run[q].pc = "done"
        /\ run[p].plan_id # run[q].plan_id
        /\ {run[p].plan_id, run[q].plan_id} \subseteq DOMAIN store
        /\ Cardinality(DOMAIN store) = 3

\* C26: get_user_profile_by_id never raises; for an id with no row, and for
\* any error of the store, it returns None, and get_profile then returns the
\* document {"error": "User profile not found"}.
C26_LookupNeverRaises ==
    prof.pc = "done" =>
        /\ ~prof.user_profile.raised
        /\ ~prof.profile.raised
        /\ (prof.table[prof.user_id] = "absent" \/ prof.failed) =>
               /\ prof.user_profile.val = NoUserProfile
               /\ prof.profile.val = ProfileNotFound

\* The store has failed on the lookup of an id that has a valid row, and the
\* error document has been returned.
C26_Witness ==
    /\ prof.pc = "done"
    /\ prof.failed
    /\ prof.table[prof.user_id] = "valid"
    /\ prof.profile = [raised |-> FALSE, val |-> ProfileNotFound]

\* The place of a pc in the order of the steps of a run.
PcRank(op, pc) ==
    IF op = "generate_plan"
    THEN CASE pc = "reason" -> 1 [] pc = "workout" -> 2 [] pc = "sleep" -> 3
           [] pc = "meal" -> 4 [] pc = "save" -> 5 [] OTHER -> 6
    ELSE CASE pc = "lookup" -> 1 [] pc = "workout" -> 2 [] pc = "meal" -> 3
           [] pc = "update" -> 4 [] OTHER -> 5

\* C27: every run that is started ends, done or failed; a step of a run goes
\* on to a later pc, or stays in its stage for one more attempt, of which a
\* stage has at most stop_after_attempt: no step goes back.
C27_RunsTerminate ==
    /\ \A p \in Handlers :
           (run[p].op # "idle") ~> (run[p].pc \in {"done", "failed"})
    /\ [][\A p \in Handlers :
             (run[p].op # "idle" /\ run'[p].op = run[p].op /\ run'[p] # run[p]) =>
                 \/ PcRank(run'[p].op, run'[p].pc) > PcRank(run[p].op, run[p].pc)
                 \/ /\ run'[p].pc = run[p].pc
                    /\ run'[p].attempt = run[p].attempt + 1
                    /\ run'[p].attempt < stop_after_attempt
       ]_vars

\* A generate_plan run has ended after its second stage took all its
\* attempts.
C27_Witness ==
    \E p \in DOMAIN run :
        /\ run[p].op = "generate_plan"
        /\ run[p].pc = "failed"
        /\ run[p].attempt = stop_after_attempt
        /\ run[p].events = << <<"reason", "begin">>, <<"reason", "end">>,
                              <<"workout", "begin">>, <<"workout", "raised">> >>

\* C28 as stated: a stage sends at most 3 requests to the capability, the
\* second requests that carry tool results included.
C28_AtMostThreeRequests ==
    \A p \in DOMAIN call : Len(call[p].sent) <= stop_after_attempt

\* C28, amended: a stage makes at most 3 attempts and an attempt sends at
\* most 2 requests, the second carrying the tool results, so a stage sends
\* at most 6 requests.
C28_AtMostTwoRequestsPerAttempt ==
    \A p \in DOMAIN call :
        /\ AttemptNumber(run[p]) <= stop_after_attempt
        /\ Len(call[p].sent) <= requests_per_attempt * AttemptNumber(run[p])
        /\ Len(call[p].sent) <= requests_per_attempt * stop_after_attempt

\* The third attempt of a stage has sent its second request after tool
\* calls, as the two attempts before it did.
C28_Witness ==
    \E p \in DOMAIN call :
        /\ call[p].phase = "second"
        /\ AttemptNumber(run[p]) = stop_after_attempt
        /\ Len(call[p].sent) = requests_per_attempt * stop_after_attempt

\* A correct_plan run of p that is between its lookup and its update.
Correcting(p) ==
    /\ run[p].op = "correct_plan"
    /\ run[p].pc \in {"workout", "meal", "update"}

\* C29 as stated: the record a correct_plan run is about to update is the
\* user's most recent record at the moment of the write.
C29_UpdatesLatestAtWrite ==
    \A p \in DOMAIN run :
        (run[p].op = "correct_plan" /\ run[p].pc = "update") =>
            run[p].plan_id = LatestOf(run[p].user_id)

\* C29, amended: the record a correct_plan run updates is the one that was
\* the user's most recent record at the run's lookup. The run keeps that id
\* until its update, the update changes the record of that id and no other,
\* and a newer record inserted in between is left as it is.
C29_UpdatesLatestAtLookup ==
    [][\A p \in DOMAIN run :
          /\ (run[p].pc = "lookup" /\ Correcting(p)') =>
                 run'[p].plan_id = LatestOf(run[p].user_id)
          /\ (Correcting(p) /\ Correcting(p)') =>
                 run'[p].plan_id = run[p].plan_id
          /\ (Correcting(p) /\ run[p].pc = "update" /\ run'[p].pc # "update") =>
                 /\ DOMAIN store' = DOMAIN store
                 /\ \A id \in DOMAIN store :
                        store'[id] # store[id] => id = run[p].plan_id
                 /\ run'[p].writes > run[p].writes =>
                        store'[run[p].plan_id].updated_at = clock'
      ]_vars

\* A correct_plan run has written its update to the record it looked up
\* after a generate_plan run inserted a newer record for the same user.
C29_Witness ==
    \E p \in DOMAIN run :
        LET latest == LatestOf(run[p].user_id) IN
        /\ run[p].op = "correct_plan"
        /\ run[p].pc = "done"
        /\ run[p].plan_id \in DOMAIN store
        /\ latest # run[p].plan_id
        /\ store[latest].updated_at = 0
        /\ store[run[p].plan_id].updated_at > store[latest].created_at

\* C30: when a correction of the workout and a correction of the meal of
\* the same record have both been answered with success, in whatever order
\* their steps were taken, the record holds the corrected workout of the one
\* and the corrected meal of the other.
C30_DisjointCorrectionsBothStored ==
    \A p \in DOMAIN run : \A q \in DOMAIN run :
        ( /\ run[p].op = "correct_plan" /\ run[p].plan_type = "workout"
          /\ run[q].op = "correct_plan" /\ run[q].plan_type = "meal"
          /\ run[p].pc = "done" /\ run[q].pc = "done"
          /\ run[p].plan_id = run[q].plan_id ) =>
            /\ store[run[p].plan_id].workout_plan =
                   json_dumps(run[p].response.workout_plan)
            /\ store[run[q].plan_id].meal_plan =
                   json_dumps(run[q].response.meal_plan)

\* C31: when correct_plan answers with success, the store holds a record of
\* the returned id and the targeted artifacts of that record are the
\* corrected values of the response, also when the record is deleted
\* between the lookup and the update of the run.
C31_SuccessMeansStored ==
    [][\A p \in DOMAIN run :
         ( /\ run[p].op = "correct_plan"
           /\ run[p].pc = "update"
           /\ run'[p].pc = "done" ) =>
             /\ run'[p].response.id \in DOMAIN store'
             /\ WorkoutTargeted(run[p].plan_type) =>
                    store'[run'[p].response.id].workout_plan
                        = json_dumps(run'[p].response.workout_plan)
             /\ MealTargeted(run[p].plan_type) =>
                    store'[run'[p].response.id].meal_plan
                        = json_dumps(run'[p].response.meal_plan)
      ]_vars

\* C32: the update a correct_plan run sends to the store after its stages
\* sets the column of every targeted artifact, to the value extracted from
\* the answer of its stage, whatever that value is, null included.
C32_UpdateSetsTargeted ==
    \A p \in DOMAIN run :
        (run[p].op = "correct_plan" /\ run[p].pc = "update") =>
            LET r == run[p]
                sent == update_data(UpdateWorkoutArg(r), UpdateMealArg(r))
                row == update_plan_in_supabase(store[r.plan_id],
                           UpdateWorkoutArg(r), UpdateMealArg(r), clock + 1)
            IN
            /\ WorkoutTargeted(r.plan_type) =>
                   /\ "workout_plan" \in sent
                   /\ row.workout_plan = json_dumps(r.workout_plan)
            /\ MealTargeted(r.plan_type) =>
                   /\ "meal_plan" \in sent
                   /\ row.meal_plan = json_dumps(r.meal_plan)

\* t has a substring that is a JSON object.
ContainsObject(t) ==
    \E i \in 1..Len(t) : \E j \in i..Len(t) :
        /\ t[i] = "{" /\ t[j] = "}"
        /\ json_loads(SubSeq(t, i, j)).ok

\* The document returned for a text no JSON was found in.
Fallback(t) == Returned(Obj(<< <<RAW_RESPONSE, Str(t)>> >>))

\* C33 as stated: for a text that contains a JSON object the extractor
\* returns a parsed document, not the raw_response fallback.
C33_ObjectAlwaysFound ==
    (epc = "done" /\ ContainsObject(flat)) =>
        (~result.raised /\ result # Fallback(flat))

\* The text from its first { to its last }.
BraceSpan(t) ==
    SubSeq(t, Min({ n \in 1..Len(t) : t[n] = "{" }),
              Max({ n \in 1..Len(t) : t[n] = "}" }))
SpanIsObject(t) ==
    /\ \E i \in 1..Len(t) : \E j \in (i + 1)..Len(t) : t[i] = "{" /\ t[j] = "}"
    /\ json_loads(BraceSpan(t)).ok

\* The cascade comes to its last search: the text does not parse as it is
\* and none of its fenced blocks parses.
NothingParsedBefore(t) ==
    /\ ~json_loads(t).ok
    /\ \A tagged \in BOOLEAN :
          \A i \in DOMAIN findall_block(t, 1, tagged) :
              ~json_loads(findall_block(t, 1, tagged)[i]).ok

\* C33, amended: when the cascade comes to its last search, the extractor
\* returns a parsed document exactly if the text from its first { to its
\* last } is a JSON object, and the document is that object; otherwise it
\* returns the fallback, also for a text that contains a JSON object.
C33_GreedySpanDecides ==
    (epc = "done" /\ NothingParsedBefore(flat)) =>
        IF SpanIsObject(flat)
        THEN result = Returned(json_loads(BraceSpan(flat)).val)
        ELSE result = Fallback(flat)

\* Two objects with prose between them were extracted: the fallback came
\* back.
C33_Witness ==
    /\ epc = "done"
    /\ flat = <<"{", "}", "x", "{", "}">>
    /\ ContainsObject(flat)
    /\ NothingParsedBefore(flat)
    /\ result = Fallback(flat)

\* The PAR-Q+ questions in their order, each with its flag.
ParqQuestions ==
    << <<"heart_condition", "Heart condition or heart medication">>,
       <<"chest_pain_activity", "Chest pain during physical activity">>,
       <<"chest_pain_rest", "Chest pain at rest in past month">>,
       <<"balance_consciousness", "Balance/consciousness issues">>,
       <<"bone_joint_condition", "Bone/joint condition worsened by exercise">>,
       <<"blood_pressure_medication", "Currently on blood pressure medication">>,
       <<"other_reason_no_exercise", "Other reason to avoid exercise">> >>

\* The flags of the questions of qs that mh answers true, in the order of qs.
RECURSIVE FlagsOf(_, _)
FlagsOf(mh, qs) ==
    IF qs = <<>> THEN <<>>
    ELSE (IF mh[Head(qs)[1]] THEN <<Head(qs)[2]>> ELSE <<>>)
         \o FlagsOf(mh, Tail(qs))

\* A request of the conversation ms holds the notice of PAR-Q+ positive
\* responses.
HoldsNotice(ms) == \E piece \in PiecesOf(ms) : piece.what = "notice"

\* The answer of analyze_profile: one flag per PAR-Q+ question answered
\* true, in the order of the questions, and requires_medical_clearance true
\* exactly if there is a flag or physician_clearance is false.
AnalysisFlagsRight(p) ==
    (run[p].op = "analyze_profile" /\ run[p].pc = "done") =>
        /\ run[p].response.parq_flags = FlagsOf(run[p].mh, ParqQuestions)
        /\ run[p].response.requires_medical_clearance
               <=> \/ run[p].response.parq_flags # <<>>
                   \/ ~run[p].mh.physician_clearance

\* C35: parq_flags holds one entry per PAR-Q+ question answered true, in the
\* order of the questions; requires_medical_clearance is true exactly if
\* parq_flags is not empty or physician_clearance is false; and a request to
\* the reasoning stage holds the notice of PAR-Q+ positive responses only if
\* parq_flags is not empty.
C35_FlagsClearanceNotice ==
    \A p \in DOMAIN run :
        /\ AnalysisFlagsRight(p)
        /\ (run[p].op = "analyze_profile" /\ call[p].phase # "none") =>
               (HoldsNotice(call[p].all_messages) =>
                    FlagsOf(run[p].mh, ParqQuestions) # <<>>)

\* The number of times the events ev have the reasoning stage begin.
Invocations(ev) ==
    Cardinality({ i \in DOMAIN ev : ev[i] = <<"reason", "begin">> })

\* C34 as stated: an analyze_profile run that has ended, with success or
\* with failure, has invoked the reasoning stage exactly once, and the
\* store is as it was.
C34_OneInvocationNoWrite ==
    \A p \in DOMAIN run :
        run[p].op = "analyze_profile" =>
            /\ store = (1 :> SavedPlan)
            /\ run[p].pc \in {"done", "failed"} =>
                   Invocations(run[p].events) = 1

\* C34, amended: an analyze_profile run invokes no stage but the reasoning
\* stage and invokes it at most once: exactly once when it has ended, with
\* success or with failure, except that it has made no invocation when the
\* arithmetic before the call raised. The store is as it was, and the run
\* has written nothing.
C34_AtMostOneInvocationNoWrite ==
    \A p \in DOMAIN run :
        run[p].op = "analyze_profile" =>
            /\ store = (1 :> SavedPlan)
            /\ run[p].writes = 0
            /\ \A i \in DOMAIN run[p].events : run[p].events[i][1] = "reason"
            /\ Invocations(run[p].events) <= 1
            /\ run[p].pc \in {"done", "failed"} =>
                   Invocations(run[p].events) =
                       IF run[p].err = "ArithmeticError" THEN 0 ELSE 1
            /\ run[p].pc = "done" => Invocations(run[p].events) = 1

\* An analyze_profile run has failed in its one invocation, whose three
\* attempts raised.
C34_Witness ==
    \E p \in DOMAIN run :
        /\ run[p].op = "analyze_profile"
        /\ run[p].pc = "failed"
        /\ run[p].attempt = stop_after_attempt
        /\ run[p].events = << <<"reason", "begin">>, <<"reason", "raised">> >>
        /\ store = (1 :> SavedPlan)


====
